---- MODULE Spec2Model ----
(***************************************************************************)
(* Model of the extraction and normalization pipeline of the OpenRouter    *)
(* citation proxy: parseClaimsFromResponse (services/openRouterService.ts),*)
(* the normalization effect of ResultView (components/ResultView.tsx),     *)
(* cleanUrl / getDomain / processResponse (utils/extractor.ts), the search *)
(* and sort state of ClaimsTable (components/ClaimsTable.tsx) and the      *)
(* submission flow of App (App.tsx).                                       *)
(*                                                                         *)
(* Text is a sequence of tokens.  A token stands for the run of characters *)
(* it spells; the structural characters the code looks for ('{', '}', the  *)
(* double quote, the code fence, white space) are tokens of their own, so  *)
(* indexOf, lastIndexOf, includes, replace and trim act on token           *)
(* sequences exactly as they act on the characters.                        *)
(***************************************************************************)
EXTENDS Integers, Sequences, FiniteSets, TLC

(***************************************************************************)
(* Tokens                                                                  *)
(***************************************************************************)
LB == "{"
RB == "}"
LK == "["
RK == "]"
COLON == ":"
COMMA == ","
QUOTE == "\""
SP == " "
NL == "\n"
\* The code-fence marker (three backquotes), spelled without the backquote character.
FENCE == "<fence>"
JSONWORD == "json"

\* Two spaces: one level of the indentation JSON.stringify(_, null, 2) writes.
IND == "  "

Whitespace == {SP, NL, IND}
Digits == {"0", "7"}

(***************************************************************************)
(* Generic helpers on sequences                                            *)
(***************************************************************************)
Last(s) == s[Len(s)]

Range(s) == {s[i] : i \in 1..Len(s)}

\* String.prototype.includes: needle occurs as a contiguous run of s.
Includes(s, needle) ==
    \E i \in 0..(Len(s) - Len(needle)) :
        \A j \in 1..Len(needle) : s[i + j] = needle[j]

\* String.prototype.indexOf for one token, 0-based, -1 when absent.
IndexOf(s, tok) ==
    IF \E i \in 1..Len(s) : s[i] = tok
    THEN (CHOOSE i \in 1..Len(s) : s[i] = tok /\ \A j \in 1..(i - 1) : s[j] # tok) - 1
    ELSE -1

\* String.prototype.lastIndexOf for one token, 0-based, -1 when absent.
LastIndexOf(s, tok) ==
    IF \E i \in 1..Len(s) : s[i] = tok
    THEN (CHOOSE i \in 1..Len(s) : s[i] = tok /\ \A j \in (i + 1)..Len(s) : s[j] # tok) - 1
    ELSE -1

\* String.prototype.substring(from, to) with 0-based from and exclusive to.
Substring(s, from, to) == SubSeq(s, from + 1, to)

\* String.prototype.trim: drops leading and trailing white space.
Trim(s) ==
    IF \A i \in 1..Len(s) : s[i] \in Whitespace
    THEN <<>>
    ELSE LET first == CHOOSE i \in 1..Len(s) :
                          s[i] \notin Whitespace /\ \A j \in 1..(i - 1) : s[j] \in Whitespace
             last == CHOOSE i \in 1..Len(s) :
                          s[i] \notin Whitespace /\ \A j \in (i + 1)..Len(s) : s[j] \in Whitespace
         IN SubSeq(s, first, last)

\* String.prototype.toLowerCase on one token.
LowerTok(t) ==
    CASE t = "Sorry" -> "sorry"
      [] t = "Tidak ditemukan" -> "tidak ditemukan"
      [] t = "No Source" -> "no source"
      [] t = "Translate.Google.com" -> "translate.google.com"
      [] t = "A" -> "a"
      [] OTHER -> t

ToLowerCase(s) == [i \in 1..Len(s) |-> LowerTok(s[i])]

(***************************************************************************)
(* JavaScript values, as JSON.parse builds them.  Every value is a pair    *)
(* <<tag, content>>: the type tag and a sequence (the digits of a number,  *)
(* the tokens of a string, the elements of an array, the <<key, value>>    *)
(* members of an object in insertion order).                               *)
(***************************************************************************)
Undefined == <<"undef", <<>>>>
Null == <<"null", <<>>>>
Bool(b) == <<"bool", <<b>>>>
Num(d) == <<"num", d>>
Str(s) == <<"str", s>>
Arr(es) == <<"arr", es>>
Obj(ms) == <<"obj", ms>>

\* The type tag and the content of a value.
TypeOf(x) == x[1]
Val(x) == x[2]

\* ToBoolean: undefined, null, false, 0 and "" are falsy, all else truthy.
Truthy(x) ==
    CASE TypeOf(x) \in {"undef", "null"} -> FALSE
      [] TypeOf(x) = "bool" -> Val(x)[1] = "true"
      [] TypeOf(x) = "num" -> \E i \in 1..Len(Val(x)) : Val(x)[i] # "0"
      [] TypeOf(x) = "str" -> Val(x) # <<>>
      [] OTHER -> TRUE

\* Reading a property of null or undefined throws a TypeError.
ThrowsOnRead(x) == TypeOf(x) \in {"undef", "null"}

\* x.key for a value that is not null or undefined.  Only objects carry the
\* keys the code reads; on every other type the property is undefined.
Get(x, key) ==
    IF TypeOf(x) = "obj" /\ \E i \in 1..Len(Val(x)) : Val(x)[i][1] = key
    THEN Val(x)[CHOOSE i \in 1..Len(Val(x)) : Val(x)[i][1] = key][2]
    ELSE Undefined

IsArray(x) == TypeOf(x) = "arr"

\* a || b
OrElse(a, b) == IF Truthy(a) THEN a ELSE b

(***************************************************************************)
(* JSON.parse.  The text is first lexed: every token gets its index,       *)
(* whether it lies inside a string, and the number of brackets open before *)
(* it.  A value is then parsed from the span of tokens it occupies: an     *)
(* object or an array is cut at the commas of its own level and each piece *)
(* must be a member or a value in full, so a text is accepted exactly when *)
(* the JSON grammar derives it.                                            *)
(***************************************************************************)
Openers == {LB, LK}
Closers == {RB, RK}

\* The same sequence, with every element computed once.
Strict(seq) == seq \o <<>>

\* l followed by r with the last element of l added to every element of r.
AddToAll(l, r) == l \o [i \in 1..Len(r) |-> r[i] + l[Len(l)]]

RECURSIVE RunningSum(_)

\* RunningSum(xs)[i] = xs[1] + ... + xs[i]
RunningSum(xs) ==
    IF Len(xs) <= 1 THEN xs
    ELSE AddToAll(RunningSum(SubSeq(xs, 1, Len(xs) \div 2)),
                  RunningSum(SubSeq(xs, Len(xs) \div 2 + 1, Len(xs))))

\* The number of double quotes up to and including each token.
QuoteCounts(s) == RunningSum(Strict([i \in 1..Len(s) |-> IF s[i] = QUOTE THEN 1 ELSE 0]))

\* 1 for a bracket that opens, -1 for one that closes, outside strings.
BracketKind(s, quotes, i) ==
    IF s[i] = QUOTE \/ quotes[i] % 2 = 1 THEN 0
    ELSE IF s[i] \in Openers THEN 1
    ELSE IF s[i] \in Closers THEN -1
    ELSE 0

LexWith(s, quotes, sums) ==
    Strict([i \in 1..Len(s) |->
               [tok |-> s[i],
                idx |-> i,
                quoted |-> (s[i] # QUOTE /\ quotes[i] % 2 = 1),
                nest |-> sums[i] - BracketKind(s, quotes, i)]])

LexOf(s, quotes) ==
    LexWith(s, quotes, RunningSum(Strict([i \in 1..Len(s) |-> BracketKind(s, quotes, i)])))

\* The lexed text.
Lex(s) == LexOf(s, QuoteCounts(s))

\* The tokens of lex from index a to index z.
Tokens(lex, a, z) == Strict([i \in 1..(z - a + 1) |-> lex[a + i - 1].tok])

\* The first and the last index in a..z of a token that is not white space;
\* z + 1 and a - 1 when there is none.
FirstNonWs(lex, a, z) ==
    IF \E i \in a..z : lex[i].tok \notin Whitespace
    THEN CHOOSE i \in a..z :
             lex[i].tok \notin Whitespace /\ \A j \in a..(i - 1) : lex[j].tok \in Whitespace
    ELSE z + 1

LastNonWs(lex, a, z) ==
    IF \E i \in a..z : lex[i].tok \notin Whitespace
    THEN z - (CHOOSE k \in 0..(z - a) :
                  /\ lex[z - k].tok \notin Whitespace
                  /\ \A j \in 0..(k - 1) : lex[z - j].tok \in Whitespace)
    ELSE a - 1

\* The index in a..z of the first double quote; z + 1 when there is none.
NextQuote(lex, a, z) ==
    IF \E i \in a..z : lex[i].tok = QUOTE
    THEN CHOOSE i \in a..z : lex[i].tok = QUOTE /\ \A j \in a..(i - 1) : lex[j].tok # QUOTE
    ELSE z + 1

ValueFail == [ok |-> FALSE, val |-> Undefined]

ValueOk(val) == [ok |-> TRUE, val |-> val]

MemberFail == [ok |-> FALSE, key |-> <<>>, val |-> Undefined]

\* The indices of the commas that separate the members or elements of the
\* bracket pair at lo and hi, between lo and hi.
Separators(lex, lo, hi) ==
    LET IsSeparator(t) == t.tok = COMMA /\ ~t.quoted /\ t.nest = lex[lo].nest + 1
        found == SelectSeq(SubSeq(lex, lo + 1, hi - 1), IsSeparator)
    IN [i \in 1..Len(found) |-> found[i].idx]

\* The indices that bound the pieces: the brackets and the separators.
Bounds(lex, lo, hi) == <<lo>> \o Separators(lex, lo, hi) \o <<hi>>

\* Whether e is the first member of its key, with the value of the last
\* member of that key: a later member replaces the value in place.
MemberEntry(ms, k) ==
    [key |-> ms[k].key,
     val |-> ms[CHOOSE j \in 1..Len(ms) :
                    /\ ms[j].key = ms[k].key
                    /\ \A l \in (j + 1)..Len(ms) : ms[l].key # ms[k].key].val,
     first |-> \A j \in 1..(k - 1) : ms[j].key # ms[k].key]

IsFirstOfKey(e) == e.first

KeyValuePairs(kept) == Strict([i \in 1..Len(kept) |-> <<kept[i].key, kept[i].val>>])

\* The members of an object, from the parsed members of its text.
PutMembers(ms) ==
    KeyValuePairs(SelectSeq([k \in 1..Len(ms) |-> MemberEntry(ms, k)], IsFirstOfKey))

\* The object of the parsed members ms, if every one of them is a member.
ObjectFrom(ms) ==
    IF \E k \in 1..Len(ms) : ~ms[k].ok THEN ValueFail ELSE ValueOk(Obj(PutMembers(ms)))

\* The array of the parsed elements es, if every one of them is a value.
ArrayFrom(es) ==
    IF \E k \in 1..Len(es) : ~es[k].ok THEN ValueFail
    ELSE ValueOk(Arr(Strict([k \in 1..Len(es) |-> es[k].val])))

\* The string between the quotes at lo and hi: it holds neither a quote nor
\* a raw line break.
StringOf(lex, lo, hi) ==
    IF /\ hi > lo
       /\ lex[hi].tok = QUOTE
       /\ \A i \in (lo + 1)..(hi - 1) : lex[i].tok \notin {QUOTE, NL}
    THEN ValueOk(Str(Tokens(lex, lo + 1, hi - 1)))
    ELSE ValueFail

\* The number from lo to hi: digits, without a leading 0 when more than one.
NumberOf(lex, lo, hi) ==
    IF /\ \A i \in lo..hi : lex[i].tok \in Digits
       /\ hi > lo => lex[lo].tok # "0"
    THEN ValueOk(Num(Tokens(lex, lo, hi)))
    ELSE ValueFail

RECURSIVE ValueOf(_, _, _)

\* The value in a..z, white space around it aside.
ValueIn(lex, a, z) == ValueOf(lex, FirstNonWs(lex, a, z), LastNonWs(lex, a, z))

MemberWith(key, v) == [ok |-> v.ok, key |-> key, val |-> v.val]

\* The member whose key lies between the quotes at k and q: the colon at c
\* and the value after it.
ColonAt(lex, k, q, c, z) ==
    IF c > z \/ lex[c].tok # COLON THEN MemberFail
    ELSE MemberWith(Tokens(lex, k + 1, q - 1), ValueIn(lex, c + 1, z))

KeyUpTo(lex, k, q, z) ==
    IF q > z \/ (\E i \in (k + 1)..(q - 1) : lex[i].tok = NL) THEN MemberFail
    ELSE ColonAt(lex, k, q, FirstNonWs(lex, q + 1, z), z)

KeyAt(lex, k, z) ==
    IF k > z \/ lex[k].tok # QUOTE THEN MemberFail
    ELSE KeyUpTo(lex, k, NextQuote(lex, k + 1, z), z)

\* The member in a..z: a string, a colon and a value.
MemberOf(lex, a, z) == KeyAt(lex, FirstNonWs(lex, a, z), z)

MembersBetween(lex, b) ==
    Strict([k \in 1..(Len(b) - 1) |-> MemberOf(lex, b[k] + 1, b[k + 1] - 1)])

ElementsBetween(lex, b) ==
    Strict([k \in 1..(Len(b) - 1) |-> ValueIn(lex, b[k] + 1, b[k + 1] - 1)])

\* The object between the braces at lo and hi.
ObjectOf(lex, lo, hi) ==
    IF FirstNonWs(lex, lo + 1, hi - 1) > hi - 1 THEN ValueOk(Obj(<<>>))
    ELSE ObjectFrom(MembersBetween(lex, Bounds(lex, lo, hi)))

\* The array between the brackets at lo and hi.
ArrayOf(lex, lo, hi) ==
    IF FirstNonWs(lex, lo + 1, hi - 1) > hi - 1 THEN ValueOk(Arr(<<>>))
    ELSE ArrayFrom(ElementsBetween(lex, Bounds(lex, lo, hi)))

\* The value that occupies lo..hi, neither end being white space.
ValueOf(lex, lo, hi) ==
    IF lo > hi THEN ValueFail
    ELSE CASE lex[lo].tok = LB ->
                IF hi > lo /\ lex[hi].tok = RB THEN ObjectOf(lex, lo, hi) ELSE ValueFail
           [] lex[lo].tok = LK ->
                IF hi > lo /\ lex[hi].tok = RK THEN ArrayOf(lex, lo, hi) ELSE ValueFail
           [] lex[lo].tok = QUOTE -> StringOf(lex, lo, hi)
           [] lex[lo].tok \in Digits -> NumberOf(lex, lo, hi)
           [] lex[lo].tok = "null" -> IF hi = lo THEN ValueOk(Null) ELSE ValueFail
           [] lex[lo].tok \in {"true", "false"} ->
                IF hi = lo THEN ValueOk(Bool(lex[lo].tok)) ELSE ValueFail
           [] OTHER -> ValueFail

\* The whole text must be one value.
WholeValue(lex) == ValueIn(lex, 1, Len(lex))

\* JSON.parse(text): the value, or a SyntaxError (ok = FALSE).
JSONParse(text) == WholeValue(Lex(text))

(***************************************************************************)
(* JSON.stringify(value) and JSON.stringify(value, null, 2)                *)
(***************************************************************************)
RECURSIVE Concat(_)

\* The concatenation of a sequence of texts.
Concat(ss) ==
    IF ss = <<>> THEN <<>>
    ELSE IF Len(ss) = 1 THEN ss[1]
    ELSE Concat(SubSeq(ss, 1, Len(ss) \div 2)) \o Concat(SubSeq(ss, Len(ss) \div 2 + 1, Len(ss)))

Indent(depth) == [i \in 1..depth |-> IND]

RECURSIVE Stringify(_, _, _)

\* pretty = FALSE: JSON.stringify(x).  pretty = TRUE: JSON.stringify(x, null, 2).
Stringify(x, pretty, depth) ==
    LET open == IF pretty THEN <<NL>> \o Indent(depth + 1) ELSE <<>>
        sep == <<COMMA>> \o open
        close == IF pretty THEN <<NL>> \o Indent(depth) ELSE <<>>
        colon == IF pretty THEN <<COLON, SP>> ELSE <<COLON>>
        Item(i) == (IF i = 1 THEN open ELSE sep)
                   \o (IF TypeOf(x) = "arr"
                       THEN Stringify(Val(x)[i], pretty, depth + 1)
                       ELSE <<QUOTE>> \o Val(x)[i][1] \o <<QUOTE>> \o colon
                            \o Stringify(Val(x)[i][2], pretty, depth + 1))
    IN CASE TypeOf(x) \in {"null", "undef"} -> <<"null">>
         [] TypeOf(x) \in {"bool", "num"} -> Val(x)
         [] TypeOf(x) = "str" -> <<QUOTE>> \o Val(x) \o <<QUOTE>>
         [] TypeOf(x) = "arr" -> IF Val(x) = <<>> THEN <<LK, RK>>
                           ELSE <<LK>> \o Concat([i \in 1..Len(Val(x)) |-> Item(i)])
                                \o close \o <<RK>>
         [] OTHER -> IF Val(x) = <<>> THEN <<LB, RB>>
                     ELSE <<LB>> \o Concat([i \in 1..Len(Val(x)) |-> Item(i)])
                          \o close \o <<RB>>

(***************************************************************************)
(* services/openRouterService.ts: parseClaimsFromResponse                  *)
(***************************************************************************)
\* The messages of the errors parseClaimsFromResponse throws, under the
\* names of the error kinds they stand for.  A message is a text: here one
\* token each.
EmptyResponse == <<"AI memberikan respons kosong.">>
TopicNotFound == <<"Topik tidak ditemukan atau sumber data tidak mencukupi untuk mengekstrak klaim.">>
MalformedJson == <<"Gagal mengurai format data (JSON Syntax Error). Barangkali model AI memberikan format yang tidak valid.">>
IncompleteSchema == <<"Format data tidak lengkap: Metadata atau Claims tidak ditemukan.">>
InvalidClaimsType == <<"Format data salah: 'claims' harus berupa daftar (array).">>
\* The engine's message for reading a property of null: the TypeError is an
\* Error, so the catch block rethrows it as it is.
NullReadTypeError == <<"Cannot read properties of null (reading 'metadata')">>

ErrorKinds == {EmptyResponse, TopicNotFound, MalformedJson, IncompleteSchema, InvalidClaimsType}

RefusalMarkers == {"sorry", "tidak dapat menemukan", "tidak ditemukan"}

ClaimsToken == <<QUOTE, "claims", QUOTE>>

Threw(message) == [ok |-> FALSE, error |-> message, value |-> Undefined]

Returned(value) == [ok |-> TRUE, error |-> <<>>, value |-> value]

\* IsEmptyContent without the trim: only the empty string counts as empty.
IsEmptyContentUntrimmed(content) == content = <<>>

\* !content || content.trim().length === 0
IsEmptyContent(content) == content = <<>> \/ Len(Trim(content)) = 0

\* lowerContent.includes(marker) for one of the three markers
HasRefusalMarker(content) ==
    \E m \in RefusalMarkers : Includes(ToLowerCase(content), <<m>>)

\* RefusalDetected with "and" for "or": the text must lack both the brace
\* and the claims token.
RefusalDetectedLackingBoth(content) ==
    /\ \E m \in RefusalMarkers : Includes(ToLowerCase(content), <<m>>)
    /\ (~Includes(content, <<LB>>) /\ ~Includes(content, <<QUOTE, "claims", QUOTE>>))

\* The condition under which the "not found" error is thrown.
RefusalDetected(content) ==
    /\ HasRefusalMarker(content)
    /\ (~Includes(content, <<LB>>) \/ ~Includes(content, ClaimsToken))

\* The index at which the run of white space that holds index i starts.
WsRunStart(s, i) ==
    CHOOSE a \in 1..i :
        /\ \A j \in a..i : s[j] \in Whitespace
        /\ a = 1 \/ s[a - 1] \notin Whitespace

\* The token at index i is part of a match of /<fence>json\s*/.
InJsonFenceMatch(s, i) ==
    \/ s[i] = FENCE /\ i < Len(s) /\ s[i + 1] = JSONWORD
    \/ s[i] = JSONWORD /\ i > 1 /\ s[i - 1] = FENCE
    \/ /\ s[i] \in Whitespace
       /\ WsRunStart(s, i) > 2
       /\ s[WsRunStart(s, i) - 1] = JSONWORD
       /\ s[WsRunStart(s, i) - 2] = FENCE

\* The token at index i is part of a match of /<fence>\s*/.
InFenceMatch(s, i) ==
    \/ s[i] = FENCE
    \/ /\ s[i] \in Whitespace
       /\ WsRunStart(s, i) > 1
       /\ s[WsRunStart(s, i) - 1] = FENCE

\* A token paired with whether a match holds it.
Unmatched(m) == ~m[2]

\* The tokens of the pairs, in order.
TokensOf(ms) == [i \in 1..Len(ms) |-> ms[i][1]]

\* .replace(/<fence>json\s*/g, '')
StripJsonFences(s) ==
    TokensOf(SelectSeq([i \in 1..Len(s) |-> <<s[i], InJsonFenceMatch(s, i)>>], Unmatched))

\* .replace(/<fence>\s*/g, '')
StripFences(s) ==
    TokensOf(SelectSeq([i \in 1..Len(s) |-> <<s[i], InFenceMatch(s, i)>>], Unmatched))

cleanedContent(content) == Trim(StripFences(StripJsonFences(content)))

\* SliceBraces with the end of the span off by one: the last "}" is left out.
SliceBracesExclusive(cleaned, firstBrace, lastBrace) ==
    IF firstBrace # -1 /\ lastBrace # -1 /\ lastBrace > firstBrace
    THEN Substring(cleaned, firstBrace, lastBrace)
    ELSE cleaned

\* if (firstBrace !== -1 && lastBrace !== -1 && lastBrace > firstBrace)
SliceBraces(cleaned, firstBrace, lastBrace) ==
    IF firstBrace # -1 /\ lastBrace # -1 /\ lastBrace > firstBrace
    THEN Substring(cleaned, firstBrace, lastBrace + 1)
    ELSE cleaned

\* The span from the first "{" to the last "}" of the cleaned text.
SliceOf(cleaned) == SliceBraces(cleaned, IndexOf(cleaned, LB), LastIndexOf(cleaned, RB))

\* The text handed to JSON.parse.
jsonToParse(content) == SliceOf(cleanedContent(content))

\* if (!parsed.metadata || !parsed.claims)
SchemaIncomplete(parsed) ==
    ~Truthy(Get(parsed, <<"metadata">>)) \/ ~Truthy(Get(parsed, <<"claims">>))

\* ValidateParsed with an empty claims array taken for a missing one.
ValidateParsedRejectingEmpty(parsed) ==
    IF TypeOf(parsed) \in {"undef", "null"} THEN Threw(NullReadTypeError)
    ELSE IF ~Truthy(Get(parsed, <<"metadata">>)) \/ ~Truthy(Get(parsed, <<"claims">>))
         THEN Threw(IncompleteSchema)
    ELSE IF TypeOf(Get(parsed, <<"claims">>)) # "arr" THEN Threw(InvalidClaimsType)
    ELSE IF Len(Val(Get(parsed, <<"claims">>))) = 0 THEN Threw(IncompleteSchema)
    ELSE Returned(parsed)

\* The validation of the parsed value.
ValidateParsed(parsed) ==
    IF ThrowsOnRead(parsed) THEN Threw(NullReadTypeError)
    ELSE IF SchemaIncomplete(parsed) THEN Threw(IncompleteSchema)
    ELSE IF ~IsArray(Get(parsed, <<"claims">>)) THEN Threw(InvalidClaimsType)
    ELSE Returned(parsed)

\* JSON.parse and what follows it; a SyntaxError becomes the syntax message.
ParseAndValidate(parsed) ==
    IF ~parsed.ok THEN Threw(MalformedJson) ELSE ValidateParsed(parsed.val)

parseClaimsFromResponse(content) ==
    IF IsEmptyContent(content) THEN Threw(EmptyResponse)
    ELSE IF RefusalDetected(content) THEN Threw(TopicNotFound)
    ELSE ParseAndValidate(JSONParse(jsonToParse(content)))

(***************************************************************************)
(* utils/extractor.ts: cleanUrl and getDomain.  A URL string is a token    *)
(* sequence: a scheme token, host tokens, path tokens, then "?" and        *)
(* parameters (a name token such as "u=" followed by the value's tokens),   *)
(* separated by "&", up to "#".                                            *)
(***************************************************************************)
Schemes == {"https://", "http://"}
TranslateHosts == {"translate.google.com", "translate.googleusercontent.com"}
PathTokens == {"/", "/a", "/translate", "/story/1"}
QMARK == "?"
AMP == "&"
HASH == "#"
PLUS == "+"
WWW == "www."
UnknownSource == "Unknown Source"

\* Tokens that cannot be part of a host name: they hold white space or
\* square brackets, which the host parser rejects.
HostForbidden == {SP, IND, LK, RK, "no source", "No Source", "tidak ada sumber",
                  "tidak ditemukan", "Tidak ditemukan", "tidak dapat menemukan",
                  "[object Object]", "Unknown Source"}

\* The index of the first token of s from index from on that is in stops,
\* or Len(s) + 1.
FirstOf(s, from, stops) ==
    IF \E i \in from..Len(s) : s[i] \in stops
    THEN CHOOSE i \in from..Len(s) : s[i] \in stops /\ \A j \in from..(i - 1) : s[j] \notin stops
    ELSE Len(s) + 1

NotNewline(t) == t # NL

UrlFailure == [ok |-> FALSE, hostname |-> <<>>, search |-> <<>>]

\* The search string of s without its leading "?": from the first "?" that
\* comes before any "#", up to the "#".
SearchOf(s, q, searchEnd) ==
    IF q <= Len(s) /\ s[q] = QMARK THEN SubSeq(s, q + 1, searchEnd - 1) ELSE <<>>

\* The host must not be empty nor hold a forbidden token; the port must be
\* digits.
UrlOfHost(s, host, port) ==
    IF host = <<>>
       \/ (\E i \in 1..Len(host) : host[i] \in HostForbidden)
       \/ (\E i \in 1..Len(port) : port[i] \notin Digits)
    THEN UrlFailure
    ELSE [ok |-> TRUE, hostname |-> ToLowerCase(host),
          search |-> SearchOf(s, FirstOf(s, 2, {QMARK, HASH}), FirstOf(s, 2, {HASH}))]

\* A ":" in the authority starts the port.
UrlOfAuthority(s, authEnd, hostEnd) ==
    UrlOfHost(s, SubSeq(s, 2, hostEnd - 1), SubSeq(s, hostEnd + 1, authEnd - 1))

\* The authority runs up to the path, "?" or "#".
UrlWithAuthority(s, authEnd) ==
    UrlOfAuthority(s, authEnd, FirstOf(SubSeq(s, 1, authEnd - 1), 2, {COLON}))

UrlOfText(s) ==
    IF Len(s) < 2 \/ s[1] \notin Schemes THEN UrlFailure
    ELSE UrlWithAuthority(s, FirstOf(s, 2, PathTokens \cup {QMARK, HASH}))

\* new URL(text): ok = FALSE when the constructor throws; otherwise the
\* hostname and the search string.  Leading and trailing white space is
\* dropped and line breaks are removed.
URLParse(text) == UrlOfText(SelectSeq(Trim(text), NotNewline))

\* The decoding URLSearchParams applies to a value: "+" is a space and a
\* percent escape is the character it encodes.
DecodeTok(t) ==
    CASE t = PLUS -> SP
      [] t = "%26" -> AMP
      [] OTHER -> t

Decode(s) == [i \in 1..Len(s) |-> DecodeTok(s[i])]

RECURSIVE SearchParamsGet(_, _)

\* The first parameter of search ends before index amp.
ParamOf(search, name, amp) ==
    IF amp > 1 /\ search[1] = name
    THEN Str(Decode(SubSeq(search, 2, amp - 1)))
    ELSE SearchParamsGet(SubSeq(search, amp + 1, Len(search)), name)

\* new URLSearchParams(search).get(name): the value of the first parameter
\* of that name, or null.
SearchParamsGet(search, name) ==
    IF search = <<>> THEN Null ELSE ParamOf(search, name, FirstOf(search, 1, {AMP}))

RECURSIVE ToStringJS(_)

\* String(x), the conversion new URL applies to its argument.
ToStringJS(x) ==
    CASE TypeOf(x) = "str" -> Val(x)
      [] TypeOf(x) \in {"num", "bool"} -> Val(x)
      [] TypeOf(x) = "null" -> <<"null">>
      [] TypeOf(x) = "undef" -> <<"undefined">>
      [] TypeOf(x) = "arr" ->
            Concat([i \in 1..Len(Val(x)) |->
                       (IF i = 1 THEN <<>> ELSE <<COMMA>>)
                       \o (IF TypeOf(Val(x)[i]) \in {"null", "undef"} THEN <<>>
                           ELSE ToStringJS(Val(x)[i]))])
      [] OTHER -> <<"[object Object]">>

\* url.includes('translate.google.com') || url.includes('translate.googleusercontent.com'):
\* a substring test on a string, an element test on an array.
MentionsTranslate(url) ==
    \E h \in TranslateHosts :
        IF TypeOf(url) = "str" THEN Includes(Val(url), <<h>>)
        ELSE \E i \in 1..Len(Val(url)) : Val(url)[i] = Str(<<h>>)

\* params.get('u') || params.get('url')
RealUrlOf(search) == OrElse(SearchParamsGet(search, "u="), SearchParamsGet(search, "url="))

\* if (realUrl) return realUrl; otherwise, and when new URL throws, url.
Unwrapped(url, urlObj) ==
    IF urlObj.ok /\ Truthy(RealUrlOf(urlObj.search)) THEN RealUrlOf(urlObj.search) ELSE url

\* cleanUrl(url) for any value url.  A number, a boolean or an object has no
\* includes method: the TypeError is caught and url returned.
cleanUrl(url) ==
    IF ~Truthy(url) THEN Str(<<>>)
    ELSE IF TypeOf(url) \notin {"str", "arr"} THEN url
    ELSE IF MentionsTranslate(url) THEN Unwrapped(url, URLParse(ToStringJS(url)))
    ELSE url

\* hostname.replace('www.', ''): removes the first occurrence.
RemoveAt(s, i) ==
    IF i <= Len(s) THEN SubSeq(s, 1, i - 1) \o SubSeq(s, i + 1, Len(s)) ELSE s

StripWww(hostname) == RemoveAt(hostname, FirstOf(hostname, 1, {WWW}))

\* The hostname without "www.", or the sentinel when new URL threw.
DomainOf(urlObj) ==
    IF urlObj.ok THEN Str(StripWww(urlObj.hostname)) ELSE Str(<<UnknownSource>>)

getDomain(url) == DomainOf(URLParse(ToStringJS(cleanUrl(url))))

(***************************************************************************)
(* utils/extractor.ts: processResponse                                     *)
(***************************************************************************)
\* The characters the URL pattern stops at: white space, "]", ")" and the
\* two quotes.
UrlStops == Whitespace \cup {RK, ")", QUOTE, "'"}

\* The characters the cleanup removes from the end of a match.
TrailingPunctuation == {".", ",", ";", ")"}

\* x?.[0]
FirstElement(x) == IF IsArray(x) /\ Val(x) # <<>> THEN Val(x)[1] ELSE Undefined

\* x?.key
GetOptional(x, key) == IF ThrowsOnRead(x) THEN Undefined ELSE Get(x, key)

\* data?.choices?.[0]?.citations
ChoiceCitations(data) ==
    GetOptional(FirstElement(GetOptional(data, <<"choices">>)), <<"citations">>)

\* data?.citations
RootCitations(data) == GetOptional(data, <<"citations">>)

\* Step 1: foundUrls from the structured citations.
StructuredUrls(data) ==
    IF Truthy(ChoiceCitations(data)) /\ IsArray(ChoiceCitations(data))
    THEN Val(ChoiceCitations(data))
    ELSE IF Truthy(RootCitations(data)) /\ IsArray(RootCitations(data))
    THEN Val(RootCitations(data))
    ELSE <<>>

\* The pattern /(https?:\/\/[^\s\]\)"']+)/g matches at i: a scheme followed
\* by at least one character that is no stop, and not inside the match of
\* an earlier scheme of the same run.
MatchStartsAt(s, i) ==
    /\ s[i] \in Schemes
    /\ i < Len(s) /\ s[i + 1] \notin UrlStops
    /\ \A j \in 1..(i - 1) :
          s[j] \in Schemes => \E k \in (j + 1)..(i - 1) : s[k] \in UrlStops

MarkedStart(s, i) == <<i, MatchStartsAt(s, i)>>

IsStart(m) == m[2]

\* The match that starts at i runs up to the next stop.
MatchAt(s, i) == Str(SubSeq(s, i, FirstOf(s, i, UrlStops) - 1))

MatchesFrom(s, starts) == [k \in 1..Len(starts) |-> MatchAt(s, starts[k][1])]

\* originalContent.match(urlRegex), the empty sequence for null.
Matches(s) == MatchesFrom(s, SelectSeq([i \in 1..Len(s) |-> MarkedStart(s, i)], IsStart))

RECURSIVE Deduplicate(_)

\* Array.from(new Set(matches)): the first occurrences, in order.
Deduplicate(xs) ==
    IF xs = <<>> THEN <<>>
    ELSE IF Last(xs) \in Range(Deduplicate(SubSeq(xs, 1, Len(xs) - 1)))
         THEN Deduplicate(SubSeq(xs, 1, Len(xs) - 1))
         ELSE Append(Deduplicate(SubSeq(xs, 1, Len(xs) - 1)), Last(xs))

\* url.replace(/[.,;)]$/, ''): removes one trailing punctuation character.
TrimPunctuation(u) ==
    IF Val(u) # <<>> /\ Last(Val(u)) \in TrailingPunctuation
    THEN Str(SubSeq(Val(u), 1, Len(Val(u)) - 1))
    ELSE u

TrimAll(us) == [k \in 1..Len(us) |-> TrimPunctuation(us[k])]

\* Step 2: the fallback when no structured citation was found.
FoundUrls(structured, text) ==
    IF Len(structured) = 0 THEN TrimAll(Deduplicate(Matches(text))) ELSE structured

\* Step 3: {index, url, domain}
CitationOf(u, index) == [index |-> index + 1, url |-> cleanUrl(u), domain |-> getDomain(cleanUrl(u))]

CitationsOf(foundUrls) == [k \in 1..Len(foundUrls) |-> CitationOf(foundUrls[k], k - 1)]

processResponse(data, text) ==
    [done |-> TRUE, content |-> text, citations |-> CitationsOf(FoundUrls(StructuredUrls(data), text))]

(***************************************************************************)
(* components/ResultView.tsx: the normalization of the claim entries       *)
(***************************************************************************)
NoSourceMarkers == {"no source", "tidak ada sumber"}

\* item.sources && Array.isArray(item.sources) && item.sources.length > 0
HasSourcesArray(item) ==
    LET sources == Get(item, <<"sources">>)
    IN Truthy(sources) /\ IsArray(sources) /\ Len(Val(sources)) > 0

\* The filter callback reads s.url: it throws on a null element.
SourcesThrow(item) ==
    HasSourcesArray(item)
    /\ \E i \in 1..Len(Val(Get(item, <<"sources">>))) : ThrowsOnRead(Val(Get(item, <<"sources">>))[i])

\* One element of the sources of a row:
\* {url: clean, domain: getDomain(clean), title}
SourceRecord(clean, title) == [url |-> clean, domain |-> getDomain(clean), title |-> title]

SourceOf(s) == SourceRecord(cleanUrl(Get(s, <<"url">>)), Get(s, <<"title">>))

\* The filter callback: s => s.url
HasUrl(s) == Truthy(Get(s, <<"url">>))

\* singleUrl is kept when it is a non-empty string without a "no source"
\* marker.
SourceOfSingle(singleUrl) ==
    IF /\ Truthy(singleUrl)
       /\ TypeOf(singleUrl) = "str"
       /\ ~\E m \in NoSourceMarkers : Includes(ToLowerCase(Val(singleUrl)), <<m>>)
    THEN <<SourceRecord(cleanUrl(singleUrl), Undefined)>>
    ELSE <<>>

\* The single-source branch: item.source || item.Source
SingleSource(item) == SourceOfSingle(OrElse(Get(item, <<"source">>), Get(item, <<"Source">>)))

MapSources(kept) == [i \in 1..Len(kept) |-> SourceOf(kept[i])]

ExtractSources(item) ==
    IF HasSourcesArray(item)
    THEN MapSources(SelectSeq(Val(Get(item, <<"sources">>)), HasUrl))
    ELSE SingleSource(item)

\* The map callback throws a TypeError when it reads a property of a null
\* entry or of a null element of the sources array.
RowThrows(item) == ThrowsOnRead(item) \/ SourcesThrow(item)

\* The ClaimRow built from the entry at index idx (0-based).
ClaimRowOf(item, idx) ==
    [id |-> "claim-" \o ToString(idx),
     claim |-> OrElse(Get(item, <<"claim">>), OrElse(Get(item, <<"Claim">>), Str(<<>>))),
     category |-> OrElse(Get(item, <<"category">>), OrElse(Get(item, <<"Category">>), Str(<<"General">>))),
     context |-> OrElse(Get(item, <<"context">>), OrElse(Get(item, <<"Context">>), Str(<<>>))),
     sources |-> ExtractSources(item)]

\* rawArray.map((item, idx) => ...): the rows, or threw = TRUE when the
\* callback throws on some entry.
Normalize(rawArray) ==
    IF \E i \in 1..Len(rawArray) : RowThrows(rawArray[i])
    THEN [threw |-> TRUE, rows |-> <<>>]
    ELSE [threw |-> FALSE, rows |-> [i \in 1..Len(rawArray) |-> ClaimRowOf(rawArray[i], i - 1)]]

(***************************************************************************)
(* services/openRouterService.ts: fetchOpenRouterResponse.  What the       *)
(* network does is the record resp:                                        *)
(*   kind = "reject"     fetch() rejects with an Error carrying message    *)
(*   kind = "httpError"  !response.ok; status is the status code, message  *)
(*                       the error.message of the JSON body (<<>>: none)   *)
(*   kind = "badJson"    response.json() rejects with a SyntaxError        *)
(*   kind = "noChoices"  the body has no non-empty choices array           *)
(*   kind = "noMessage"  choices[0] has no message                         *)
(*   kind = "content"    choices[0].message.content is the text content    *)
(***************************************************************************)

\* The message of the Error the try block throws, <<>> when it returns.
TryBlockError(resp) ==
    CASE resp.kind = "reject" -> resp.message
      [] resp.kind = "httpError" ->
            IF resp.message # <<>> THEN resp.message
            ELSE <<"HTTP ", resp.status, ": ", "status text">>
      [] resp.kind = "badJson" -> <<"Unexpected token < in JSON at position 0">>
      [] resp.kind = "noChoices" -> <<"Invalid response structure from OpenRouter">>
      [] resp.kind = "noMessage" -> <<"No content in response from OpenRouter">>
      [] OTHER -> IF resp.content = <<>> THEN <<"No content in response from OpenRouter">> ELSE <<>>

\* The catch block: the message is replaced when it mentions fetch or one of
\* the status codes, in this order, and rethrown as it is otherwise.
EnhancedError(message) ==
    IF Includes(message, <<"fetch">>) THEN <<"Network error: Unable to connect to OpenRouter. Please check your internet connection.">>
    ELSE IF Includes(message, <<"401">>) THEN <<"Autentikasi gagal: API Key tidak valid. Periksa pengaturan Anda.">>
    ELSE IF Includes(message, <<"429">>) THEN <<"Batas permintaan (rate limit) terlampaui: Silakan tunggu sebentar sebelum mencoba lagi.">>
    ELSE IF Includes(message, <<"404">>) THEN <<"Model atau Endpoint tidak ditemukan (404). Periksa konfigurasi model.">>
    ELSE IF \E c \in {"500", "502", "503", "504"} : Includes(message, <<c>>) THEN <<"Layanan OpenRouter sedang bermasalah (Server Error). Silakan coba lagi nanti.">>
    ELSE message

\* The try block threw message, or returned the content of the first choice.
Settled(resp, message) ==
    IF message # <<>> THEN Threw(EnhancedError(message)) ELSE Returned(Str(resp.content))

\* The request without the validation of its arguments.
fetchWithoutValidation(model, query, resp) == Settled(resp, TryBlockError(resp))

\* fetchOpenRouterResponse({model, query}) when the network does resp: the
\* rejection, or the content of the first choice.
fetchOpenRouterResponse(model, query, resp) ==
    IF Trim(model) = <<>> THEN Threw(<<"Model is required">>)
    ELSE IF Trim(query) = <<>> THEN Threw(<<"Query is required">>)
    ELSE Settled(resp, TryBlockError(resp))

(***************************************************************************)
(* The inputs: what the model may answer.                                  *)
(***************************************************************************)
\* The largest number of entries of an enumerated claims array.
MaxClaims == 2
\* The largest number of pieces of an enumerated free text.
MaxPieces == 3

Absent == <<"absent", <<>>>>

\* An object from a sequence of <<key token, value>> pairs; Absent values
\* leave their key out.
Present(m) == m[2] # Absent

Member(m) == <<<<m[1]>>, m[2]>>

MkObj(members) ==
    LET kept == SelectSeq(members, Present)
    IN Obj([i \in 1..Len(kept) |-> Member(kept[i])])

UrlWrapped == <<"https://", "translate.google.com", "/translate", QMARK, "u=", "https://", "example.com", "/a">>
UrlWired == <<"https://", WWW, "wired.com", "/story/1">>

\* The claim entries the claims arrays are built from.
EntrySet ==
    { Null,
      Obj(<<>>),
      Num(<<"7">>),
      Str(<<"x">>),
      MkObj(<< <<"claim", Str(<<"x">>)>>,
               <<"sources", Arr(<<MkObj(<< <<"url", Str(UrlWrapped)>> >>)>>)>> >>),
      MkObj(<< <<"Claim", Str(<<"y">>)>>, <<"Source", Str(UrlWired)>> >>),
      MkObj(<< <<"claim", Str(<<"tidak ditemukan">>)>>, <<"category", Str(<<"Trend">>)>>,
               <<"source", Str(<<"No Source">>)>> >>),
      MkObj(<< <<"claim", Str(<<"x">>)>>, <<"sources", Arr(<<Null>>)>> >>),
      MkObj(<< <<"context", Str(<<"y">>)>>,
               <<"sources", Arr(<<Obj(<<>>), MkObj(<< <<"url", Str(UrlWired)>>, <<"title", Str(<<"x">>)>> >>)>>)>> >>),
      MkObj(<< <<"claim", Str(<<"x">>)>>, <<"Claim", Str(<<"y">>)>>,
               <<"category", Str(<<>>)>>, <<"Category", Str(<<"Trend">>)>>,
               <<"Context", Str(<<"y">>)>>,
               <<"sources", Arr(<<MkObj(<< <<"url", Str(UrlWired)>>, <<"title", Str(<<"x">>)>> >>),
                                  MkObj(<< <<"url", Str(<<>>)>> >>),
                                  MkObj(<< <<"url", Str(UrlWrapped)>> >>)>>)>>,
               <<"source", Str(UrlWired)>> >>),
      MkObj(<< <<"claim", Str(<<"x">>)>>, <<"sources", Arr(<<Obj(<<>>)>>)>>,
               <<"source", Str(UrlWired)>> >>),
      MkObj(<< <<"sources", Arr(<<>>)>>, <<"source", Str(<<>>)>>, <<"Source", Str(UrlWired)>> >>),
      MkObj(<< <<"source", Num(<<"7">>)>>, <<"Source", Str(UrlWired)>> >>) }

RECURSIVE SeqsUpTo(_, _)

\* The sequences of at most n elements of S.
SeqsUpTo(S, n) ==
    IF n = 0 THEN {<<>>}
    ELSE LET shorter == SeqsUpTo(S, n - 1)
         IN shorter \cup {Append(q, e) : q \in shorter, e \in S}

MetaValues ==
    { Absent, Null, Num(<<"0">>), Bool("false"), Str(<<>>), Obj(<<>>),
      MkObj(<< <<"topic_summary", Str(<<"tidak ditemukan">>)>> >>), Num(<<"7">>) }

ClaimsValues ==
    { Absent, Null, Num(<<"0">>), Num(<<"7">>), Str(<<>>), Str(<<"x">>), Bool("true"),
      Bool("false"), Obj(<<>>), Arr(<<>>), Arr(<<Obj(<<>>)>>),
      Arr(<<MkObj(<< <<"claim", Str(<<"sorry">>)>> >>)>>) }

Payload(metadata, claims) == MkObj(<< <<"metadata", metadata>>, <<"claims", claims>> >>)

\* The ways an answer carries its JSON text: as it is, inside a json fence
\* or a bare fence, and with commentary before and after it, with and
\* without a refusal marker.
Wrap(w, compact, pretty) ==
    CASE w = 1 -> compact
      [] w = 2 -> pretty
      [] w = 3 -> <<FENCE, JSONWORD, NL>> \o pretty \o <<NL, FENCE>>
      [] w = 4 -> <<FENCE, NL>> \o compact \o <<NL, FENCE>>
      [] w = 5 -> <<"Here", SP>> \o compact \o <<SP, "x">>
      [] w = 6 -> <<"Here", COLON, NL, FENCE, JSONWORD, NL>> \o pretty \o <<NL, FENCE, NL, "x">>
      [] w = 7 -> <<"Sorry", COMMA, SP>> \o compact
      [] w = 8 -> compact \o <<SP, "tidak dapat menemukan">>
      [] OTHER -> <<SP, NL>> \o compact \o <<NL>>

Wraps == 1..9

WrappedPayloads ==
    { Wrap(w, Stringify(Payload(m, c), FALSE, 0), Stringify(Payload(m, c), TRUE, 0)) :
        w \in Wraps, m \in MetaValues, c \in ClaimsValues }

\* Payloads with a metadata object and every claims array of at most
\* MaxClaims entries.
ClaimArrayPayloads ==
    { Stringify(Payload(Obj(<<>>), Arr(es)), FALSE, 0) : es \in SeqsUpTo(EntrySet, MaxClaims) }

\* Free text: at most MaxPieces pieces, one after the other.
Pieces ==
    { <<SP>>, <<"Sorry">>, <<"tidak ditemukan">>, <<LB>>, <<RB>>, ClaimsToken, <<"null">>,
      <<"x">>, <<"7">>, <<LK, RK>>, <<FENCE>> }

FreeTexts == { Concat(ps) : ps \in SeqsUpTo(Pieces, MaxPieces) }

\* A valid payload with a code fence at any one place, and cut short at any
\* place, bare and after an apology.
BaseText == Stringify(Payload(Obj(<<>>), Arr(<<>>)), FALSE, 0)

InsertAt(text, i, tok) == SubSeq(text, 1, i) \o <<tok>> \o SubSeq(text, i + 1, Len(text))

EditedTexts ==
    LET edits == { InsertAt(BaseText, i, FENCE) : i \in 0..Len(BaseText) }
                    \cup { SubSeq(BaseText, 1, i) : i \in 1..(Len(BaseText) - 1) }
    IN edits \cup { <<"Sorry", SP>> \o e : e \in edits }

ContentSet == WrappedPayloads \cup ClaimArrayPayloads \cup FreeTexts \cup EditedTexts

\* The contents the chat request of App may come back with: payloads of
\* every shape the validation tells apart, bare and fenced, and free texts.
AppContents ==
    { Wrap(w, Stringify(Payload(m, c), FALSE, 0), Stringify(Payload(m, c), TRUE, 0)) :
        w \in {1, 2, 3, 4, 6},
        m \in {Absent, Null, Obj(<<>>), MkObj(<< <<"topic_summary", Str(<<"tidak ditemukan">>)>> >>)},
        c \in {Absent, Num(<<"0">>), Obj(<<>>), Arr(<<>>), Arr(<<Obj(<<>>)>>), Arr(<<Null>>)} }
    \cup { <<SP>>, <<"Sorry", SP, "x">>, <<"null">>, <<LB>>, <<"x">> }

Queries == {<<>>, <<SP>>, <<"ai">>}

\* AVAILABLE_MODELS[0].id: the selected model is never blank.
SelectedModel == <<"perplexity/sonar">>

NetworkOutcomes ==
    { [kind |-> "reject", status |-> "", message |-> <<"Failed to ", "fetch">>, content |-> <<>>],
      [kind |-> "reject", status |-> "", message |-> <<"Load failed">>, content |-> <<>>],
      [kind |-> "httpError", status |-> "401", message |-> <<>>, content |-> <<>>],
      [kind |-> "httpError", status |-> "400", message |-> <<"Error: ", "bad request">>, content |-> <<>>],
      [kind |-> "httpError", status |-> "429", message |-> <<>>, content |-> <<>>],
      [kind |-> "httpError", status |-> "404", message |-> <<>>, content |-> <<>>],
      [kind |-> "httpError", status |-> "503", message |-> <<>>, content |-> <<>>],
      [kind |-> "badJson", status |-> "200", message |-> <<>>, content |-> <<>>],
      [kind |-> "noChoices", status |-> "200", message |-> <<>>, content |-> <<>>],
      [kind |-> "noMessage", status |-> "200", message |-> <<>>, content |-> <<>>],
      [kind |-> "content", status |-> "200", message |-> <<>>, content |-> <<>>] }
    \cup { [kind |-> "content", status |-> "200", message |-> <<>>, content |-> c] : c \in AppContents }

(***************************************************************************)
(* The state                                                               *)
(***************************************************************************)
VARIABLES
    query,                \* App: state.query
    isLoading,            \* App: state.isLoading
    error,                \* App: state.error, Null or a string
    result,               \* App: state.result, Null or {content}
    logs,                 \* App: logs
    isSettingsOpen,       \* App: isSettingsOpen
    isBackendConfigured,  \* App: isBackendConfigured
    isInitialLoading,     \* App: isInitialLoading
    request,              \* the chat request in flight: Null, or the query it carries
    content,              \* handleSubmit: content, <<>> until the parser is called
    outcome,              \* handleSubmit: what parseClaimsFromResponse(content) did
    jsonData,             \* ResultView: jsonData, Null or an array
    jsonString,           \* ResultView: jsonString
    normalizedData,       \* ResultView: normalizedData
    showRawJson,          \* ResultView: showRawJson
    effect,               \* ResultView: "none" (not mounted), "pending", "done", "threw"
    crashed,              \* an effect threw: React has unmounted the tree
    searchInput,          \* ClaimsTable: searchInput
    debouncedSearch,      \* ClaimsTable: useDebounce's debouncedValue
    timers,               \* ClaimsTable: the pending timeouts of useDebounce, oldest first, each the value it sets
    sortKey,              \* ClaimsTable: sortKey
    sortDirection,        \* ClaimsTable: sortDirection
    url,                  \* extractor: the argument of cleanUrl / getDomain
    resolved,             \* extractor: {url, domain} as the callers build it, or Unresolved
    response,             \* extractor: the data argument of processResponse
    originalContent,      \* extractor: the originalContent argument of processResponse
    extracted             \* extractor: what processResponse returned, or NotExtracted

appVars == <<query, isLoading, error, result, logs, isSettingsOpen, isBackendConfigured,
            isInitialLoading, request>>
parseVars == <<content, outcome>>
viewVars == <<jsonData, jsonString, normalizedData, showRawJson, effect>>
tableVars == <<searchInput, debouncedSearch, timers, sortKey, sortDirection>>
urlVars == <<url, resolved>>
citationVars == <<response, originalContent, extracted>>
libVars == <<tableVars, urlVars, citationVars>>
vars == <<appVars, parseVars, viewVars, crashed, libVars>>

NotRun == [ok |-> FALSE, error |-> <<"not run">>, value |-> Undefined]

ResultOf(text) == Obj(<< <<<<"content">>, Str(text)>> >>)

\* useState initial values of App
AppInit ==
    /\ query = <<>>
    /\ isLoading = FALSE
    /\ error = Null
    /\ result = Null
    /\ logs = <<>>
    /\ isSettingsOpen = FALSE
    /\ isBackendConfigured = FALSE
    /\ isInitialLoading = TRUE
    /\ request = Null

\* useState initial values of ResultView
ViewInit ==
    /\ jsonData = Null
    /\ jsonString = <<>>
    /\ normalizedData = <<>>
    /\ showRawJson = FALSE

\* useState initial values of ClaimsTable; no timeout is pending.
TableInit ==
    /\ searchInput = <<>>
    /\ debouncedSearch = <<>>
    /\ timers = <<>>
    /\ sortKey = "category"
    /\ sortDirection = "asc"

\* No call of cleanUrl, getDomain or processResponse has been made.
Unresolved == [url |-> Undefined, domain |-> Undefined]

UrlIdle ==
    /\ url = Str(<<>>)
    /\ resolved = Unresolved

NotExtracted == [done |-> FALSE, content |-> <<>>, citations |-> <<>>]

CitationsIdle ==
    /\ response = Null
    /\ originalContent = <<>>
    /\ extracted = NotExtracted

Init ==
    /\ AppInit
    /\ ViewInit
    /\ TableInit
    /\ UrlIdle
    /\ CitationsIdle
    /\ effect = "none"
    /\ content = <<>>
    /\ outcome = NotRun
    /\ crashed = FALSE

(***************************************************************************)
(* App.tsx                                                                 *)
(***************************************************************************)
\* The status request of the mount effect settles.
fetchBackendStatus(isConfigured) ==
    /\ ~crashed
    /\ isInitialLoading
    /\ isBackendConfigured' = isConfigured
    /\ isSettingsOpen' = (IF isConfigured THEN isSettingsOpen ELSE TRUE)
    /\ isInitialLoading' = FALSE
    /\ UNCHANGED <<query, isLoading, error, result, logs, request, parseVars, viewVars, crashed>>
    /\ UNCHANGED libVars

\* The settings button.
OpenSettings ==
    /\ ~crashed
    /\ isSettingsOpen' = TRUE
    /\ UNCHANGED <<query, isLoading, error, result, logs, isBackendConfigured, isInitialLoading,
                   request, parseVars, viewVars, crashed>>
    /\ UNCHANGED libVars

\* The key was saved on the server.
handleSaveKey ==
    /\ ~crashed
    /\ isSettingsOpen
    /\ isBackendConfigured' = TRUE
    /\ isSettingsOpen' = FALSE
    /\ UNCHANGED <<query, isLoading, error, result, logs, isInitialLoading, request,
                   parseVars, viewVars, crashed>>
    /\ UNCHANGED libVars

\* The key was deleted on the server.
handlePurgeKey ==
    /\ ~crashed
    /\ isSettingsOpen
    /\ isBackendConfigured' = FALSE
    /\ UNCHANGED <<query, isLoading, error, result, logs, isSettingsOpen, isInitialLoading,
                   request, parseVars, viewVars, crashed>>
    /\ UNCHANGED libVars

\* onChange of the topic input.
SetQuery(q) ==
    /\ ~crashed
    /\ query' = q
    /\ UNCHANGED <<isLoading, error, result, logs, isSettingsOpen, isBackendConfigured,
                   isInitialLoading, request, parseVars, viewVars, crashed>>
    /\ UNCHANGED libVars

\* handleSubmit without the reset of the result.
handleSubmitKeepingResult ==
    /\ ~crashed
    /\ ~isLoading /\ query # <<>>
    /\ IF Trim(query) = <<>>
       THEN UNCHANGED <<appVars, parseVars, viewVars>>
       ELSE IF ~isBackendConfigured
       THEN /\ isSettingsOpen' = TRUE
            /\ UNCHANGED <<query, isLoading, error, result, logs, isBackendConfigured,
                           isInitialLoading, request, parseVars, viewVars>>
       ELSE /\ isLoading' = TRUE
            /\ error' = Null
            /\ logs' = << <<"Fetching sources for topic: ">> \o query, <<"Using model: ", "Sonar">> >>
            /\ jsonData' = Null
            /\ jsonString' = <<>>
            /\ normalizedData' = <<>>
            /\ showRawJson' = FALSE
            /\ effect' = "none"
            /\ request' = Str(query)
            /\ content' = <<>>
            /\ outcome' = NotRun
            /\ UNCHANGED <<query, result, isSettingsOpen, isBackendConfigured, isInitialLoading>>
    /\ UNCHANGED crashed
    /\ UNCHANGED libVars

\* The form is submitted (the submit button is disabled while loading and
\* while the query is empty): handleSubmit up to the await.  Resetting the
\* result unmounts ResultView.
handleSubmit ==
    /\ ~crashed
    /\ ~isLoading /\ query # <<>>
    /\ IF Trim(query) = <<>>
       THEN UNCHANGED <<appVars, parseVars, viewVars>>
       ELSE IF ~isBackendConfigured
       THEN /\ isSettingsOpen' = TRUE
            /\ UNCHANGED <<query, isLoading, error, result, logs, isBackendConfigured,
                           isInitialLoading, request, parseVars, viewVars>>
       ELSE /\ isLoading' = TRUE
            /\ error' = Null
            /\ result' = Null
            /\ logs' = << <<"Fetching sources for topic: ">> \o query, <<"Using model: ", "Sonar">> >>
            /\ jsonData' = Null
            /\ jsonString' = <<>>
            /\ normalizedData' = <<>>
            /\ showRawJson' = FALSE
            /\ effect' = "none"
            /\ request' = Str(query)
            /\ content' = <<>>
            /\ outcome' = NotRun
            /\ UNCHANGED <<query, isSettingsOpen, isBackendConfigured, isInitialLoading>>
    /\ UNCHANGED crashed
    /\ UNCHANGED libVars

\* userFriendlyMessage.replace(/^Error: /i, '')
StripErrorPrefix(message) ==
    IF message # <<>> /\ message[1] \in {"Error: ", "error: ", "ERROR: "}
    THEN Tail(message)
    ELSE message

\* err.message || "Terjadi kesalahan yang tidak terduga."
UserFriendlyMessage(message) ==
    StripErrorPrefix(IF message = <<>> THEN <<"Terjadi kesalahan yang tidak terduga.">> ELSE message)

\* The catch block without the reset of isLoading.
SubmissionFailsStillLoading(message) ==
    /\ logs' = Append(logs, <<"Gagal: ">> \o message)
    /\ error' = Str(message)
    /\ UNCHANGED <<isLoading, result, effect>>

\* The catch block of handleSubmit.
SubmissionFails(message) ==
    /\ logs' = Append(logs, <<"Gagal: ">> \o message)
    /\ isLoading' = FALSE
    /\ error' = Str(message)
    /\ UNCHANGED <<result, effect>>

\* Steps 3 and 4 of handleSubmit, after the parser has returned parsedData.
SubmissionSucceeds(text, claims) ==
    /\ logs' = logs
                 \o (IF ~Truthy(claims) \/ Len(Val(claims)) = 0
                     THEN << <<"Warning: No claims found in the response.">> >>
                     ELSE <<>>)
                 \o << <<"Data berhasil diproses.">> >>
    /\ isLoading' = FALSE
    /\ result' = ResultOf(text)
    /\ effect' = "pending"
    /\ UNCHANGED error

AfterParse(text, parsedData) ==
    /\ content' = text
    /\ outcome' = parsedData
    /\ IF parsedData.ok
       THEN SubmissionSucceeds(text, Get(parsedData.value, <<"claims">>))
       ELSE SubmissionFails(UserFriendlyMessage(parsedData.error))

AfterFetch(rawData) ==
    IF rawData.ok
    THEN AfterParse(Val(rawData.value), parseClaimsFromResponse(Val(rawData.value)))
    ELSE SubmissionFails(UserFriendlyMessage(rawData.error)) /\ UNCHANGED parseVars

\* The request settles with resp: handleSubmit from the await to its end.
FetchSettles(resp) ==
    /\ ~crashed
    /\ request # Null
    /\ request' = Null
    /\ AfterFetch(fetchOpenRouterResponse(SelectedModel, Val(request), resp))
    /\ UNCHANGED <<query, isSettingsOpen, isBackendConfigured, isInitialLoading,
                   jsonData, jsonString, normalizedData, showRawJson, crashed>>
    /\ UNCHANGED libVars

(***************************************************************************)
(* components/ResultView.tsx                                               *)
(***************************************************************************)
\* Which branch of the effect takes the array to normalize from parsedData.
BranchOf(parsedData) ==
    IF IsArray(parsedData) THEN "array"
    ELSE IF Truthy(Get(parsedData, <<"claims">>)) /\ IsArray(Get(parsedData, <<"claims">>))
         THEN "claims"
    ELSE IF Truthy(Get(parsedData, <<"claim">>)) THEN "claim"
    ELSE "none"

\* rawArray, and with it jsonData, in that branch.
RawArrayOf(parsedData) ==
    CASE BranchOf(parsedData) = "array" -> parsedData
      [] BranchOf(parsedData) = "claims" -> Get(parsedData, <<"claims">>)
      [] BranchOf(parsedData) = "claim" -> Arr(<<parsedData>>)
      [] OTHER -> Arr(<<>>)

\* What jsonString is set to in that branch.
JsonStringOf(parsedData) ==
    IF BranchOf(parsedData) = "claim"
    THEN Stringify(Arr(<<parsedData>>), TRUE, 0)
    ELSE Stringify(parsedData, TRUE, 0)

\* The state updates of the branch taken, and setNormalizedData; the
\* effect throws when the map callback does.
EffectNormalizes(parsedData, taken, normalized) ==
    IF normalized.threw
    THEN /\ effect' = "threw"
         /\ crashed' = TRUE
         /\ UNCHANGED <<jsonData, jsonString, normalizedData>>
    ELSE /\ effect' = "done"
         /\ jsonData' = (IF taken = "none" THEN jsonData ELSE RawArrayOf(parsedData))
         /\ jsonString' = (IF taken = "none" THEN jsonString ELSE JsonStringOf(parsedData))
         /\ normalizedData' = normalized.rows
         /\ UNCHANGED crashed

\* parsed is what the parser did with text; a thrown error leaves
\* parsedData null and the effect does nothing.
EffectOn(text, parsed) ==
    IF text = <<>> \/ ~parsed.ok
    THEN /\ effect' = "done"
         /\ UNCHANGED <<jsonData, jsonString, normalizedData, crashed>>
    ELSE EffectNormalizes(parsed.value, BranchOf(parsed.value),
                          Normalize(Val(RawArrayOf(parsed.value))))

\* The effect of ResultView on data = state.result.
ResultViewEffect ==
    /\ ~crashed
    /\ effect = "pending"
    /\ EffectOn(Val(Get(result, <<"content">>)),
                parseClaimsFromResponse(Val(Get(result, <<"content">>))))
    /\ UNCHANGED <<appVars, parseVars, showRawJson>>
    /\ UNCHANGED libVars

\* The "Raw Data" / "Lihat Tabel" button and the fallback view's link.
ToggleRawJson ==
    /\ ~crashed
    /\ effect \in {"pending", "done"}
    /\ showRawJson' = ~showRawJson
    /\ UNCHANGED <<appVars, parseVars, jsonData, jsonString, normalizedData, effect, crashed>>
    /\ UNCHANGED libVars

Next ==
    \/ \E b \in BOOLEAN : fetchBackendStatus(b)
    \/ OpenSettings
    \/ handleSaveKey
    \/ handlePurgeKey
    \/ \E q \in Queries : SetQuery(q)
    \/ handleSubmit
    \/ \E resp \in NetworkOutcomes : FetchSettles(resp)
    \/ ResultViewEffect
    \/ ToggleRawJson

Spec == Init /\ [][Next]_vars

\* Every chat request settles: the fetch resolves or rejects.
SpecLive == Init /\ [][Next]_vars /\ WF_vars(\E resp \in NetworkOutcomes : FetchSettles(resp))

(***************************************************************************)
(* The parser and the normalization on their own: parseClaimsFromResponse  *)
(* is applied to every content of ContentSet, and ResultView is mounted    *)
(* on it.                                                                  *)
(***************************************************************************)
InitParse ==
    /\ AppInit
    /\ ViewInit
    /\ TableInit
    /\ UrlIdle
    /\ CitationsIdle
    /\ content \in ContentSet
    /\ outcome = NotRun
    /\ effect = "none"
    /\ crashed = FALSE

\* parseClaimsFromResponse(content)
Parse ==
    /\ outcome = NotRun
    /\ outcome' = parseClaimsFromResponse(content)
    /\ UNCHANGED <<appVars, content, viewVars, crashed>>
    /\ UNCHANGED libVars

\* <ResultView data={{content}} /> is mounted: App renders it once the
\* parser has returned.
MountResultView ==
    /\ effect = "none"
    /\ outcome.ok
    /\ result' = ResultOf(content)
    /\ effect' = "pending"
    /\ UNCHANGED <<query, isLoading, error, logs, isSettingsOpen, isBackendConfigured,
                   isInitialLoading, request, parseVars, jsonData, jsonString, normalizedData,
                   showRawJson, crashed>>
    /\ UNCHANGED libVars

NextParse ==
    \/ Parse
    \/ MountResultView
    \/ ResultViewEffect

SpecParse == InitParse /\ [][NextParse]_vars

(***************************************************************************)
(* components/ClaimsTable.tsx.  ResultView renders the table over          *)
(* normalizedData once jsonData is set.  The texts of the rows and of the  *)
(* search box are spelled one character per token, so that includes is the *)
(* substring test on characters.                                           *)
(***************************************************************************)
\* `${row.claim} ${row.context} ${row.category}`.toLowerCase()
SearchIndex(row) ==
    ToLowerCase(ToStringJS(row.claim) \o <<SP>> \o ToStringJS(row.context) \o <<SP>>
                \o ToStringJS(row.category))

\* row => row.searchIndex.includes(query)
MarkedRow(row, q) == <<row, Includes(SearchIndex(row), q)>>

IsMarked(m) == m[2]

RowsOf(ms) == [i \in 1..Len(ms) |-> ms[i][1]]

FilterRows(data, q) == RowsOf(SelectSeq([i \in 1..Len(data) |-> MarkedRow(data[i], q)], IsMarked))

\* The filter without the test for a blank search text.
FilteredDataWithoutBlankTest(data, search) == FilterRows(data, ToLowerCase(search))

\* filteredData: every row when the trimmed search text is empty, else the
\* rows whose index includes the lowercased search text.
FilteredData(data, search) ==
    IF Trim(search) = <<>> THEN data ELSE FilterRows(data, ToLowerCase(search))

\* The UTF-16 code unit of a character of the table texts; the default
\* category is the one token "General" and is ordered by its first letter.
CodeUnit(t) ==
    CASE t = SP -> 32
      [] t = "A" -> 65
      [] t = "General" -> 71
      [] t = "a" -> 97
      [] OTHER -> 98

\* aVal < bVal on two strings: the first code unit that differs decides, and
\* a proper prefix is smaller.
LessThan(a, b) ==
    \E i \in 1..Len(b) :
        /\ \A j \in 1..(i - 1) : j <= Len(a) /\ a[j] = b[j]
        /\ (i > Len(a) \/ CodeUnit(a[i]) < CodeUnit(b[i]))

\* aVal < bVal ? -1 : 1
Comparison(aVal, bVal) == IF LessThan(Val(aVal), Val(bVal)) THEN -1 ELSE 1

\* The comparator without the test for equal keys.
CompareWithoutEquality(a, b, key, direction) ==
    IF direction = "asc" THEN Comparison(a[key], b[key]) ELSE -Comparison(a[key], b[key])

\* The comparator of sortedData: 0 on equal keys, else the comparison of
\* the keys, negated when the direction is descending.
Compare(a, b, key, direction) ==
    IF a[key] = b[key] THEN 0
    ELSE IF direction = "asc" THEN Comparison(a[key], b[key])
    ELSE -Comparison(a[key], b[key])

\* Where a stable sort puts row after the rows already in order: behind the
\* last one that does not compare greater.
PlaceOf(sorted, row, key, direction) ==
    CHOOSE p \in 0..Len(sorted) :
        /\ p = 0 \/ Compare(sorted[p], row, key, direction) <= 0
        /\ \A j \in (p + 1)..Len(sorted) : Compare(sorted[j], row, key, direction) > 0

RECURSIVE SortRows(_, _, _)

\* [...rows].sort(comparator): Array.prototype.sort is stable, the rows are
\* placed one after the other in the order of the copy.
SortRows(rows, key, direction) ==
    IF rows = <<>> THEN <<>>
    ELSE InsertAt(SortRows(SubSeq(rows, 1, Len(rows) - 1), key, direction),
                  PlaceOf(SortRows(SubSeq(rows, 1, Len(rows) - 1), key, direction),
                          rows[Len(rows)], key, direction),
                  rows[Len(rows)])

\* sortedData: the rows the table shows.
SortedData(data, search, key, direction) == SortRows(FilteredData(data, search), key, direction)

\* The table is on screen: the effect has set jsonData and the raw view is
\* off.
TableShown == ~crashed /\ effect = "done" /\ jsonData # Null /\ ~showRawJson

\* clearTimeout(handler) in the cleanup of the effect: the timeout the
\* previous run of the effect has set is dropped if it is still pending.
ClearTimeout(pending) ==
    IF pending = <<>> THEN <<>> ELSE SubSeq(pending, 1, Len(pending) - 1)

\* The effect without its cleanup.
UseDebounceEffectWithoutCleanup(pending, value) == Append(pending, value)

\* The effect of useDebounce after a render with a new value: the cleanup of
\* the previous run, then setTimeout for the new value.
UseDebounceEffect(pending, value) == Append(ClearTimeout(pending), value)

\* Typing into the search box: searchInput changes at once and the effect
\* of useDebounce clears the pending timer and starts one for the new
\* value.  Setting the value it already has renders nothing anew.
SetSearchInput(q) ==
    /\ TableShown
    /\ searchInput' = q
    /\ timers' = (IF q = searchInput THEN timers ELSE UseDebounceEffect(timers, q))
    /\ UNCHANGED <<appVars, parseVars, viewVars, crashed, debouncedSearch, sortKey, sortDirection,
                   urlVars, citationVars>>

\* The "Hapus filter" button, shown when no row matches a non-blank search.
ClearFilter ==
    /\ TableShown
    /\ Len(FilteredData(normalizedData, debouncedSearch)) = 0
    /\ Trim(debouncedSearch) # <<>>
    /\ searchInput' = <<>>
    /\ timers' = (IF searchInput = <<>> THEN timers ELSE UseDebounceEffect(timers, <<>>))
    /\ UNCHANGED <<appVars, parseVars, viewVars, crashed, debouncedSearch, sortKey, sortDirection,
                   urlVars, citationVars>>

\* A timeout that is dropped without running its callback.
TimerDropped ==
    /\ TableShown
    /\ timers # <<>>
    /\ timers' = Tail(timers)
    /\ UNCHANGED <<appVars, parseVars, viewVars, crashed, searchInput, debouncedSearch, sortKey,
                   sortDirection, urlVars, citationVars>>

\* The oldest timeout of useDebounce expires: setDebouncedValue(value).
TimerFires ==
    /\ TableShown
    /\ timers # <<>>
    /\ debouncedSearch' = Head(timers)
    /\ timers' = Tail(timers)
    /\ UNCHANGED <<appVars, parseVars, viewVars, crashed, searchInput, sortKey, sortDirection,
                   urlVars, citationVars>>

SortKeys == {"claim", "category", "context"}

\* handleSort without the reset of the direction on a new key.
handleSortKeepingDirection(key) ==
    /\ TableShown
    /\ Len(FilteredData(normalizedData, debouncedSearch)) > 0
    /\ IF sortKey = key
       THEN /\ sortDirection' = (IF sortDirection = "asc" THEN "desc" ELSE "asc")
            /\ UNCHANGED sortKey
       ELSE /\ sortKey' = key
            /\ UNCHANGED sortDirection
    /\ UNCHANGED <<appVars, parseVars, viewVars, crashed, searchInput, debouncedSearch, timers,
                   urlVars, citationVars>>

\* A column header of the table, shown when there are rows to show.
handleSort(key) ==
    /\ TableShown
    /\ Len(FilteredData(normalizedData, debouncedSearch)) > 0
    /\ IF sortKey = key
       THEN /\ sortDirection' = (IF sortDirection = "asc" THEN "desc" ELSE "asc")
            /\ UNCHANGED sortKey
       ELSE /\ sortKey' = key
            /\ sortDirection' = "asc"
    /\ UNCHANGED <<appVars, parseVars, viewVars, crashed, searchInput, debouncedSearch, timers,
                   urlVars, citationVars>>

\* The largest number of rows of a table.
MaxRows == 2
\* The largest number of characters typed into the search box.
MaxSearchLen == 2

\* The claim, context and category of the entries the tables are made of.
RowTexts ==
    { <<<<"a">>, <<>>, <<"b">>>>,
      <<<<"A", SP, "b">>, <<"a">>, <<"a">>>> }

EntryOf(t) ==
    MkObj(<< <<"claim", Str(t[1])>>, <<"context", Str(t[2])>>, <<"category", Str(t[3])>> >>)

EntriesOf(ts) == [i \in 1..Len(ts) |-> EntryOf(ts[i])]

\* The claims arrays of the answers whose tables are searched.
TableEntries == { Strict(EntriesOf(ts)) : ts \in SeqsUpTo(RowTexts, MaxRows) }

SearchTexts == SeqsUpTo({"A", SP}, MaxSearchLen)

\* The state after the submission of an answer with the claims array raw
\* has succeeded and the effect of ResultView has run: text is the answer.
Rendered(raw, text) ==
    /\ query = <<"ai">>
    /\ isLoading = FALSE
    /\ error = Null
    /\ result = ResultOf(text)
    /\ logs = << <<"Fetching sources for topic: ", "ai">>, <<"Using model: ", "Sonar">> >>
                \o (IF raw = <<>> THEN << <<"Warning: No claims found in the response.">> >> ELSE <<>>)
                \o << <<"Data berhasil diproses.">> >>
    /\ isSettingsOpen = FALSE
    /\ isBackendConfigured = TRUE
    /\ isInitialLoading = FALSE
    /\ request = Null
    /\ content = text
    /\ outcome = parseClaimsFromResponse(text)
    /\ jsonData = Arr(raw)
    /\ jsonString = JsonStringOf(Payload(Obj(<<>>), Arr(raw)))
    /\ normalizedData = Normalize(raw).rows
    /\ showRawJson = FALSE
    /\ effect = "done"
    /\ crashed = FALSE

\* The table has just been mounted: the first timeout of useDebounce is
\* pending with the empty search text.
InitTable ==
    /\ \E raw \in TableEntries : Rendered(raw, Stringify(Payload(Obj(<<>>), Arr(raw)), FALSE, 0))
    /\ searchInput = <<>>
    /\ debouncedSearch = <<>>
    /\ timers = << <<>> >>
    /\ sortKey = "category"
    /\ sortDirection = "asc"
    /\ UrlIdle
    /\ CitationsIdle

NextTable ==
    \/ \E q \in SearchTexts : SetSearchInput(q)
    \/ ClearFilter
    \/ TimerFires
    \/ \E key \in SortKeys : handleSort(key)

SpecTable == InitTable /\ [][NextTable]_vars

\* The browser runs the callback of every timeout that stays pending.
SpecTableLive == InitTable /\ [][NextTable]_vars /\ WF_vars(TimerFires)

(***************************************************************************)
(* cleanUrl and getDomain on their own.  The callers (ResultView for the   *)
(* sources of a row, processResponse for a citation) build the pair        *)
(* {url: cleanUrl(u), domain: getDomain(cleanUrl(u))}; a stored url may be  *)
(* resolved again.                                                         *)
(***************************************************************************)
\* How deep a translation-redirect URL may wrap another one.
MaxNesting == 1

\* The translation-redirect URL that wraps inner in its u parameter.
TranslateUrlOf(inner) == <<"https://", "translate.google.com", "/translate", QMARK, "u=">> \o inner

RECURSIVE InnerUrls(_)

\* The URLs a query parameter may carry: plain ones, and redirect URLs
\* wrapping them up to depth n.
InnerUrls(n) ==
    IF n = 0
    THEN { <<"https://", "example.com", "/a">>, UrlWired, <<"https://", "example.com", "/a", PLUS, "b">> }
    ELSE InnerUrls(n - 1) \cup { TranslateUrlOf(i) : i \in InnerUrls(n - 1) }

HostSet ==
    { <<"example.com">>, <<WWW, "wired.com">>, <<"news.", WWW, "example.com">>,
      <<"translate.google.com">>, <<"translate.googleusercontent.com">>,
      <<"Translate.Google.com">>, <<"no source">> }

PathSet == { <<>>, <<"/a">>, <<"/translate">>, <<"/", "translate.google.com">> }

\* The query strings: none, a u or url parameter, an empty u before a url
\* parameter, and a parameter that only mentions a redirect host.
SearchSet ==
    { <<>>, <<QMARK, "ref=", "translate.google.com">> }
    \cup { <<QMARK, "u=">> \o i : i \in InnerUrls(MaxNesting) }
    \cup { <<QMARK, "url=">> \o i : i \in InnerUrls(MaxNesting) }
    \cup { <<QMARK, "u=", AMP, "url=">> \o i : i \in InnerUrls(MaxNesting) }
    \cup { <<QMARK, "ref=", "translate.google.com", AMP, "u=">> \o i : i \in InnerUrls(MaxNesting) }
    \cup { <<HASH, QMARK, "u=">> \o i : i \in InnerUrls(0) }

\* The strings cleanUrl and getDomain are given: URLs, and text that is no
\* URL.
UrlSet ==
    { <<sch>> \o h \o pa \o q : sch \in Schemes, h \in HostSet, pa \in PathSet, q \in SearchSet }
    \cup { <<>>, <<"x">>, <<"No Source">>, <<"translate.google.com">>,
           <<"translate.google.com", "/translate", QMARK, "u=", "https://", "example.com", "/a">> }

\* {url: cleanUrl(u), domain: getDomain(cleanUrl(u))}
ResolveUrl(u) == [url |-> cleanUrl(u), domain |-> getDomain(cleanUrl(u))]

InitUrl ==
    /\ AppInit
    /\ ViewInit
    /\ TableInit
    /\ CitationsIdle
    /\ effect = "none"
    /\ content = <<>>
    /\ outcome = NotRun
    /\ crashed = FALSE
    /\ url \in { Str(u) : u \in UrlSet }
    /\ resolved = Unresolved

\* A caller resolves url.
Resolve ==
    /\ resolved = Unresolved
    /\ resolved' = ResolveUrl(url)
    /\ UNCHANGED <<appVars, parseVars, viewVars, crashed, tableVars, url, citationVars>>

\* The url of a resolved pair is handed to the resolution again.
ResolveStored ==
    /\ resolved # Unresolved
    /\ url' = resolved.url
    /\ resolved' = ResolveUrl(resolved.url)
    /\ UNCHANGED <<appVars, parseVars, viewVars, crashed, tableVars, citationVars>>

NextUrl ==
    \/ Resolve
    \/ ResolveStored

SpecUrl == InitUrl /\ [][NextUrl]_vars

(***************************************************************************)
(* processResponse on its own.                                             *)
(***************************************************************************)
\* The largest number of pieces of a response text.
MaxTextPieces == 4

UrlA == <<"https://", "a.com">>
UrlB == <<"http://", "b.org", "/a">>

TextPieces == { UrlA, UrlB, <<".">>, <<",">>, <<")">>, <<SP>> }

ResponseTexts == { Concat(ps) : ps \in SeqsUpTo(TextPieces, MaxTextPieces) }

\* A response with the citations list first at choices[0] and the list
\* root at the root; Absent leaves the list out.
ResponseWith(first, root) ==
    MkObj(<< <<"choices", Arr(<<MkObj(<< <<"citations", first>> >>)>>)>>, <<"citations", root>> >>)

CitationLists ==
    { Absent, Arr(<<>>), Arr(<<Str(UrlWired)>>), Arr(<<Str(UrlWrapped), Str(UrlWired), Str(TranslateUrlOf(UrlWrapped))>>),
      Str(<<"x">>) }

Responses ==
    { Null, Obj(<<>>), MkObj(<< <<"choices", Arr(<<>>)>>, <<"citations", Arr(<<Str(UrlWired)>>)>> >>) }
    \cup { ResponseWith(first, root) : first \in CitationLists, root \in CitationLists }

InitCitations ==
    /\ AppInit
    /\ ViewInit
    /\ TableInit
    /\ UrlIdle
    /\ effect = "none"
    /\ content = <<>>
    /\ outcome = NotRun
    /\ crashed = FALSE
    /\ response \in Responses
    /\ originalContent \in ResponseTexts
    /\ extracted = NotExtracted

\* processResponse(response, originalContent)
Process ==
    /\ ~extracted.done
    /\ extracted' = processResponse(response, originalContent)
    /\ UNCHANGED <<appVars, parseVars, viewVars, crashed, tableVars, urlVars, response, originalContent>>

NextCitations == Process

SpecCitations == InitCitations /\ [][NextCitations]_vars

(***************************************************************************)
(* Properties.  Those of the parser and of the normalization are stated    *)
(* for SpecParse, those of a submission for Spec, those of cleanUrl and    *)
(* getDomain for SpecUrl, those of processResponse for SpecCitations and   *)
(* those of the table for SpecTable.  The two progress properties are      *)
(* stated for SpecLive (every request settles) and SpecTableLive (every    *)
(* pending timeout runs).                                                  *)
(***************************************************************************)
\* The parser has been applied to content.
ParserRan == outcome # NotRun

\* The parser got past the empty check and the refusal check.
ReachedRecovery == ParserRan /\ outcome.error \notin {EmptyResponse, TopicNotFound}

\* What JSON.parse makes of the text recovered from content.
Recovered == JSONParse(jsonToParse(content))

\* content holds a refusal marker, in any case.
MentionsRefusal == \E i \in 1..Len(content) : LowerTok(content[i]) \in RefusalMarkers

\* content holds the token "claims" between double quotes.
HasClaimsToken ==
    \E i \in 1..(Len(content) - 2) :
        content[i] = QUOTE /\ content[i + 1] = "claims" /\ content[i + 2] = QUOTE

\* content is empty or white space only.
OnlyWhitespace == \A i \in 1..Len(content) : content[i] \in Whitespace

\* The claims array of the payload the parser returned.
AcceptedClaims == Val(Get(outcome.value, <<"claims">>))

\* C1: for every payload the parser accepts, the normalization map of
\* ResultView never throws and yields exactly one row per element of the
\* claims array, whatever the elements are.
C1_NormalizationTotal ==
    effect \in {"done", "threw"} =>
        /\ effect = "done"
        /\ Len(normalizedData) = Len(AcceptedClaims)

\* C2: for every validated claims array of length n the normalized
\* collection has length n, row i is the row built from entry i alone, its
\* id is "claim-" followed by its 0-based index, and the ids are pairwise
\* distinct.
C2_OrderAndIdentity ==
    effect \in {"done", "threw"} =>
        /\ Len(normalizedData) = Len(AcceptedClaims)
        /\ \A i \in 1..Len(normalizedData) :
              /\ normalizedData[i].id = "claim-" \o ToString(i - 1)
              /\ normalizedData[i] = ClaimRowOf(AcceptedClaims[i], i - 1)
        /\ \A i, j \in 1..Len(normalizedData) :
              i # j => normalizedData[i].id # normalizedData[j].id

\* C3: for every input, the parser returns a payload or fails with one of
\* the five error kinds; no other error reaches the caller.
C3_ClosedErrorTaxonomy ==
    ParserRan => (outcome.ok \/ outcome.error \in ErrorKinds)

RecoveredIsValidPayload ==
    /\ Recovered.ok
    /\ TypeOf(Recovered.val) = "obj"
    /\ TypeOf(Get(Recovered.val, <<"metadata">>)) = "obj"
    /\ IsArray(Get(Recovered.val, <<"claims">>))

\* C5: whenever the recovered text is a JSON object with a metadata object
\* and a claims array, the parser succeeds, refusal marker or not; and
\* content with a refusal marker and no braces fails with TopicNotFound.
C5_ValidPayloadIsNoRefusal ==
    ParserRan =>
        /\ RecoveredIsValidPayload => outcome.ok
        /\ (/\ ~OnlyWhitespace
            /\ MentionsRefusal
            /\ LB \notin Range(content) /\ RB \notin Range(content))
              => outcome.error = TopicNotFound

\* C6: when the recovered text parses to a JSON object, validation fails
\* with IncompleteSchema if and only if the object has no metadata field or
\* no claims field, whatever the values of the fields are.
C6_IncompleteSchemaIffAbsent ==
    (ReachedRecovery /\ Recovered.ok /\ TypeOf(Recovered.val) = "obj") =>
        (outcome.error = IncompleteSchema
            <=> \/ Get(Recovered.val, <<"metadata">>) = Undefined
                \/ Get(Recovered.val, <<"claims">>) = Undefined)

\* C7: when the parsed object has a metadata field and a claims field,
\* validation fails with InvalidClaimsType if claims is not an array, and
\* never fails with it if claims is an array.
C7_InvalidClaimsTypeForNonArrays ==
    (/\ ReachedRecovery /\ Recovered.ok /\ TypeOf(Recovered.val) = "obj"
     /\ Get(Recovered.val, <<"metadata">>) # Undefined
     /\ Get(Recovered.val, <<"claims">>) # Undefined) =>
        IF IsArray(Get(Recovered.val, <<"claims">>))
        THEN outcome.error # InvalidClaimsType
        ELSE outcome.error = InvalidClaimsType

\* The payloads with a metadata object and an empty claims array.
ZeroClaimPayloads ==
    { Payload(m, Arr(<<>>)) :
        m \in {Obj(<<>>), MkObj(<< <<"topic_summary", Str(<<"tidak ditemukan">>)>> >>)} }

\* The fenced forms of a text.
Fenced == {3, 4}

\* The bare and the fenced forms of a text.
BareOrFenced == {1, 2} \cup Fenced

\* content is the payload p, bare or fenced.
CarriesBareOrFenced(p) ==
    \E w \in BareOrFenced :
        content = Wrap(w, Stringify(p, FALSE, 0), Stringify(p, TRUE, 0))

\* C8: for a payload with a metadata object and an empty claims array, bare
\* or fenced, the parser returns the payload, the submission ends with the
\* result set and no error, and normalization yields zero rows; after a
\* parse failure the error is set and the result is null.
C8_ZeroClaimsIsSuccess ==
    ParserRan =>
        /\ \A p \in ZeroClaimPayloads :
              CarriesBareOrFenced(p) =>
                  /\ outcome = Returned(p)
                  /\ result = ResultOf(content)
                  /\ error = Null
                  /\ effect \in {"pending", "done"}
                  /\ effect = "done" => normalizedData = <<>>
        /\ ~outcome.ok => (error # Null /\ result = Null)

\* A fenced zero-claim payload was submitted and rendered.
C8_ZeroClaimsRendered ==
    /\ ParserRan
    /\ \E p \in ZeroClaimPayloads, w \in Fenced :
          content = Wrap(w, Stringify(p, FALSE, 0), Stringify(p, TRUE, 0))
    /\ effect = "done"
    /\ result = ResultOf(content)
    /\ error = Null
    /\ normalizedData = <<>>

\* The text handed to JSON.parse is the span of the cleaned text from its
\* first "{" to its last "}" when the last lies after the first, and the
\* cleaned text otherwise; the cleaned text holds no fence.
HandedSpanIsOutermost ==
    LET cleaned == cleanedContent(content)
        handed == jsonToParse(content)
        opens == {i \in 1..Len(cleaned) : cleaned[i] = LB}
        closes == {i \in 1..Len(cleaned) : cleaned[i] = RB}
    IN /\ FENCE \notin Range(cleaned)
       /\ IF opens # {} /\ closes # {}
             /\ (CHOOSE i \in closes : \A j \in closes : j <= i)
                  > (CHOOSE i \in opens : \A j \in opens : i <= j)
          THEN handed = SubSeq(cleaned,
                               CHOOSE i \in opens : \A j \in opens : i <= j,
                               CHOOSE i \in closes : \A j \in closes : j <= i)
          ELSE handed = cleaned

\* The payloads the validation accepts, each with its nine wrapped forms.
WrappedValid ==
    { <<Wrap(w, Stringify(Payload(m, c), FALSE, 0), Stringify(Payload(m, c), TRUE, 0)),
        Payload(m, c)>> :
        w \in Wraps,
        m \in {x \in MetaValues : x # Absent /\ Truthy(x)},
        c \in {x \in ClaimsValues : IsArray(x)} }

\* content has no brace.
BraceFree == LB \notin Range(content) /\ RB \notin Range(content)

\* C9, as stated: the span handed to the parser is the outermost one, a
\* valid payload inside commentary or fences parses, and text without
\* braces fails with MalformedJson.
C9_BraceFreeTextIsMalformed ==
    ReachedRecovery =>
        /\ HandedSpanIsOutermost
        /\ \A p \in WrappedValid : content = p[1] => outcome = Returned(p[2])
        /\ BraceFree => outcome.error = MalformedJson

\* C9, amended: the span handed to the parser is the outermost one, a
\* valid payload inside commentary or fences parses, and text without
\* braces reaches the parser unsliced and never yields a payload: it fails,
\* with MalformedJson exactly when the cleaned text is not a JSON value.
C9_RecoveryByOutermostBraces ==
    ReachedRecovery =>
        /\ HandedSpanIsOutermost
        /\ \A p \in WrappedValid : content = p[1] => outcome = Returned(p[2])
        /\ BraceFree =>
              /\ jsonToParse(content) = cleanedContent(content)
              /\ ~outcome.ok
              /\ outcome.error = MalformedJson <=> ~JSONParse(cleanedContent(content)).ok

\* A payload inside a fence, with commentary before and after it, was
\* returned.
C9_PayloadRecoveredFromProse ==
    /\ ParserRan
    /\ outcome.ok
    /\ Len(content) > 2
    /\ content[1] = "Here"
    /\ Last(content) = "x"
    /\ FENCE \in Range(content)

\* C10: the parser fails with EmptyResponse if and only if the input is
\* empty or white space only, so no other error is reported for such input.
C10_EmptyResponseFirst ==
    ParserRan =>
        /\ outcome.error = EmptyResponse <=> OnlyWhitespace
        /\ OnlyWhitespace => ~outcome.ok

\* White space only was rejected as an empty response.
C10_WhitespaceRejected ==
    /\ ParserRan
    /\ content # <<>>
    /\ OnlyWhitespace
    /\ outcome.error = EmptyResponse

\* url has been resolved.
UrlResolved == resolved # Unresolved

\* What new URL makes of the argument url.
ParsedArgument == URLParse(Val(url))

\* The argument is a URL whose host is a translation-redirect host.
OnRedirectHost ==
    /\ ParsedArgument.ok
    /\ \E h \in TranslateHosts : ParsedArgument.hostname = <<h>>

\* C11: resolving the url of a resolved pair gives the same pair again, for
\* every input, a translation-redirect URL that wraps another one
\* included; in particular cleanUrl(cleanUrl(u)) = cleanUrl(u).
C11_ResolutionIdempotent ==
    UrlResolved =>
        /\ ResolveUrl(resolved.url) = resolved
        /\ cleanUrl(cleanUrl(url)) = cleanUrl(url)

\* C12: cleanUrl returns its input unchanged for every URL whose host is
\* not a translation-redirect host, whatever its path, query and fragment
\* mention and whatever u or url parameter it carries.
C12_UnwrappingKeyedOnHost ==
    (UrlResolved /\ ParsedArgument.ok /\ ~OnRedirectHost) => cleanUrl(url) = url

\* The value of the parameter name of the argument, when it is not empty.
ParameterOf(name) == SearchParamsGet(ParsedArgument.search, name)

\* C13: for a URL on a translation-redirect host, cleanUrl returns the
\* value of the u parameter when it is non-empty, else the value of the url
\* parameter when it is non-empty, else the URL unchanged; the redirect URL
\* of Scenario C resolves to https://example.com/a with domain example.com.
C13_UnwrappingResult ==
    UrlResolved =>
        /\ OnRedirectHost =>
              cleanUrl(url) =
                  IF ParameterOf("u=") \notin {Null, Str(<<>>)} THEN ParameterOf("u=")
                  ELSE IF ParameterOf("url=") \notin {Null, Str(<<>>)} THEN ParameterOf("url=")
                  ELSE url
        /\ url = Str(UrlWrapped) =>
              resolved = [url |-> Str(<<"https://", "example.com", "/a">>),
                          domain |-> Str(<<"example.com">>)]

\* What new URL makes of the url getDomain was given.
ParsedResolved == URLParse(ToStringJS(resolved.url))

\* C14: for every URL that parses, getDomain returns the hostname with a
\* leading "www." removed, and the hostname unchanged when it does not
\* start with "www."; for every input that does not parse it returns
\* "Unknown Source".
C14_DomainExtraction ==
    UrlResolved =>
        resolved.domain =
            IF ~ParsedResolved.ok THEN Str(<<UnknownSource>>)
            ELSE IF ParsedResolved.hostname[1] = WWW THEN Str(Tail(ParsedResolved.hostname))
            ELSE Str(ParsedResolved.hostname)

\* The effect of ResultView has run to its end or thrown.
EffectRan == effect \in {"done", "threw"}

\* A field that is present and not empty.
Filled(x) == x \notin {Undefined, Null, Str(<<>>)}

\* The lower-case key first, the capitalized key second, the default third.
FieldChain(entry, lower, upper, default) ==
    IF Filled(Get(entry, <<lower>>)) THEN Get(entry, <<lower>>)
    ELSE IF Filled(Get(entry, <<upper>>)) THEN Get(entry, <<upper>>)
    ELSE Str(default)

\* C15: for every entry of an accepted claims array, the row's claim is the
\* entry's claim when non-empty, else its Claim when non-empty, else the
\* empty string; context follows the chain context/Context; category
\* follows category/Category with default "General" and is never empty.
C15_FieldFallbackChain ==
    EffectRan =>
        /\ effect = "done"
        /\ Len(normalizedData) = Len(AcceptedClaims)
        /\ \A i \in 1..Len(AcceptedClaims) :
              /\ normalizedData[i].claim = FieldChain(AcceptedClaims[i], "claim", "Claim", <<>>)
              /\ normalizedData[i].context = FieldChain(AcceptedClaims[i], "context", "Context", <<>>)
              /\ normalizedData[i].category
                    = FieldChain(AcceptedClaims[i], "category", "Category", <<"General">>)
              /\ normalizedData[i].category # Str(<<>>)

\* The entry has a sources array with at least one element.
ListsSources(entry) ==
    TypeOf(Get(entry, <<"sources">>)) = "arr" /\ Val(Get(entry, <<"sources">>)) # <<>>

\* An element of a sources array carries a non-empty url.
CarriesUrl(s) == Filled(Get(s, <<"url">>))

\* The elements of the entry's sources array that carry a url, in order.
ListedWithUrl(entry) == SelectSeq(Val(Get(entry, <<"sources">>)), CarriesUrl)

\* C16: when an entry has a sources array with at least one element, the
\* row's sources are, in the same order, exactly the elements that carry a
\* non-empty url, each with url = cleanUrl(element.url) and the element's
\* title unchanged; elements without a url contribute nothing.
C16_MultiSourceExtraction ==
    EffectRan =>
        /\ effect = "done"
        /\ Len(normalizedData) = Len(AcceptedClaims)
        /\ \A i \in 1..Len(AcceptedClaims) :
              ListsSources(AcceptedClaims[i]) =>
                  /\ Len(normalizedData[i].sources) = Len(ListedWithUrl(AcceptedClaims[i]))
                  /\ \A k \in 1..Len(normalizedData[i].sources) :
                        /\ normalizedData[i].sources[k].url
                              = cleanUrl(Get(ListedWithUrl(AcceptedClaims[i])[k], <<"url">>))
                        /\ normalizedData[i].sources[k].title
                              = Get(ListedWithUrl(AcceptedClaims[i])[k], <<"title">>)

\* The single-source field of an entry: source, else Source.
SingleField(entry) ==
    IF Filled(Get(entry, <<"source">>)) THEN Get(entry, <<"source">>) ELSE Get(entry, <<"Source">>)

\* A non-empty string that holds no "no source" marker, in any case.
UsableSource(x) ==
    /\ TypeOf(x) = "str"
    /\ Val(x) # <<>>
    /\ \A k \in 1..Len(Val(x)) : LowerTok(Val(x)[k]) \notin NoSourceMarkers

\* C17: the source/Source field is consulted exactly when the entry has no
\* sources array with at least one element; the row then has exactly one
\* source, without title, if the field is a usable string, and none
\* otherwise.  An entry whose non-empty sources array has no element with
\* a url gets no source, whatever its source field.
C17_SingleSourceFallback ==
    EffectRan =>
        /\ effect = "done"
        /\ Len(normalizedData) = Len(AcceptedClaims)
        /\ \A i \in 1..Len(AcceptedClaims) :
              IF ListsSources(AcceptedClaims[i])
              THEN ListedWithUrl(AcceptedClaims[i]) = <<>> => normalizedData[i].sources = <<>>
              ELSE IF UsableSource(SingleField(AcceptedClaims[i]))
              THEN /\ Len(normalizedData[i].sources) = 1
                   /\ normalizedData[i].sources[1].url = cleanUrl(SingleField(AcceptedClaims[i]))
                   /\ normalizedData[i].sources[1].title = Undefined
              ELSE normalizedData[i].sources = <<>>

\* The citations are those of list: one per element, in order, each the
\* cleaned element.
DerivedFromList(list) ==
    /\ Len(extracted.citations) = Len(Val(list))
    /\ \A k \in 1..Len(Val(list)) : extracted.citations[k].url = cleanUrl(Val(list)[k])

\* Every citation is a URL matched in the text.
DerivedFromText ==
    \A k \in 1..Len(extracted.citations) :
        \E i \in 1..Len(originalContent) :
            /\ MatchStartsAt(originalContent, i)
            /\ extracted.citations[k].url = cleanUrl(TrimPunctuation(MatchAt(originalContent, i)))

\* C18: if the first choice carries a citations list, the citations derive
\* from exactly that list, also when it is empty; otherwise, if the root
\* carries one, from that list; only when neither is present are URLs
\* extracted from the text.
C18_CitationListPriority ==
    extracted.done =>
        IF IsArray(ChoiceCitations(response)) THEN DerivedFromList(ChoiceCitations(response))
        ELSE IF IsArray(RootCitations(response)) THEN DerivedFromList(RootCitations(response))
        ELSE DerivedFromText

\* processResponse fell back to the URLs of the text.
FellBackToText == extracted.done /\ StructuredUrls(response) = <<>>

\* C19: when processResponse falls back to the text, no two citations have
\* the same url and no url ends with ".", ",", ";" or ")".
C19_FallbackDeduplicatedAndTrimmed ==
    FellBackToText =>
        /\ \A i, j \in 1..Len(extracted.citations) :
              i # j => extracted.citations[i].url # extracted.citations[j].url
        /\ \A i \in 1..Len(extracted.citations) :
              Last(Val(extracted.citations[i].url)) \notin TrailingPunctuation

\* The rows the table keeps for the search text in use.
ShownRows == FilteredData(normalizedData, debouncedSearch)

\* The index of a row as the search reads it: claim, context and category
\* with a space between them, in lower case.
IndexText(row) ==
    ToLowerCase(Val(row.claim) \o <<SP>> \o Val(row.context) \o <<SP>> \o Val(row.category))

\* The row's index holds the lowercased, trimmed search text.
Selects(row, q) == Includes(IndexText(row), ToLowerCase(Trim(q)))

\* C20: for every search text that is not white space only, the filtered
\* rows are exactly the rows whose index contains lowercase(trim(q)); so
\* q with leading or trailing spaces selects the same rows as q.
C20_SearchSemantics ==
    (TableShown /\ Trim(debouncedSearch) # <<>>) =>
        /\ \A i \in 1..Len(normalizedData) :
              Selects(normalizedData[i], debouncedSearch)
                  <=> normalizedData[i] \in Range(ShownRows)
        /\ ShownRows = FilteredData(normalizedData, Trim(debouncedSearch))

\* The rows on screen: sortedData under the current sort state.
DisplayedRows == SortedData(normalizedData, debouncedSearch, sortKey, sortDirection)

\* The row's index holds the lowercased search text, as the filter tests it.
RowMatches(row, q) == Includes(SearchIndex(row), ToLowerCase(q))

\* sub holds exactly the rows of data that the search text q selects, each
\* once and in the order of data.
InOriginalOrder(sub, data, q) ==
    \E at \in [1..Len(sub) -> 1..Len(data)] :
        /\ \A i \in 1..Len(sub) : sub[i] = data[at[i]]
        /\ \A i, j \in 1..Len(sub) : i < j => at[i] < at[j]
        /\ \A k \in 1..Len(data) :
              (Trim(q) = <<>> \/ RowMatches(data[k], q)) <=> \E i \in 1..Len(sub) : at[i] = k

\* C21, as stated: the rows the search returns are the matching rows of
\* the dataset in their original relative order, each once, every row for
\* a blank search text; with the initial sort state (category, ascending)
\* these are the rows on screen, in this order.
C21_SearchKeepsOriginalOrder ==
    TableShown =>
        /\ InOriginalOrder(ShownRows, normalizedData, debouncedSearch)
        /\ (Trim(debouncedSearch) = <<>> => ShownRows = normalizedData)
        /\ (sortKey = "category" /\ sortDirection = "asc" => DisplayedRows = ShownRows)

SortDirections == {"asc", "desc"}

\* The place of row in rows (rows differ in their id).
PositionIn(rows, row) == CHOOSE i \in 1..Len(rows) : rows[i] = row

\* sorted holds the rows of rows, each once.
IsPermutationOf(sorted, rows) ==
    /\ Len(sorted) = Len(rows)
    /\ \A i \in 1..Len(rows) : \E j \in 1..Len(sorted) : sorted[j] = rows[i]

\* No row stands before a row whose key comes first in the direction.
OrderedBy(sorted, key, direction) ==
    \A i, j \in 1..Len(sorted) :
        i < j => IF direction = "asc"
                 THEN ~LessThan(Val(sorted[j][key]), Val(sorted[i][key]))
                 ELSE ~LessThan(Val(sorted[i][key]), Val(sorted[j][key]))

\* Rows with equal keys stand in the order they have in rows.
KeepsOrderOfEqualKeys(sorted, rows, key) ==
    \A i, j \in 1..Len(sorted) :
        (i < j /\ sorted[i][key] = sorted[j][key])
            => PositionIn(rows, sorted[i]) < PositionIn(rows, sorted[j])

StableSortOf(sorted, rows, key, direction) ==
    /\ IsPermutationOf(sorted, rows)
    /\ OrderedBy(sorted, key, direction)
    /\ KeepsOrderOfEqualKeys(sorted, rows, key)
    /\ SortRows(sorted, key, direction) = sorted

\* C21, amended: the rows the search returns are rows of the
\* dataset that the filter selects, each once and in their original
\* relative order, every row for a blank search text; the rows on screen
\* are these rows in the order of the sort state, which is (category,
\* ascending) when no sort action has been taken: ordered by category, rows
\* of equal category in their original relative order.
C21_SearchKeepsOrderBeforeSort ==
    TableShown =>
        /\ InOriginalOrder(ShownRows, normalizedData, debouncedSearch)
        /\ (Trim(debouncedSearch) = <<>> => ShownRows = normalizedData)
        /\ IsPermutationOf(DisplayedRows, ShownRows)
        /\ (sortKey = "category" /\ sortDirection = "asc") =>
              /\ OrderedBy(DisplayedRows, "category", "asc")
              /\ KeepsOrderOfEqualKeys(DisplayedRows, ShownRows, "category")

\* A search has kept two rows and no sort action has changed the sort
\* state: the rows on screen are not in the order of the dataset.
C21_ShownInCategoryOrder ==
    /\ TableShown
    /\ sortKey = "category"
    /\ sortDirection = "asc"
    /\ Trim(debouncedSearch) # <<>>
    /\ Len(ShownRows) = 2
    /\ DisplayedRows # ShownRows

\* C22: for every filtered collection, key and direction, the sorted view
\* is a permutation of the filtered collection ordered by the key in that
\* direction, rows with equal keys keep their order from the filtered
\* collection in both directions, sorting the result again changes
\* nothing, and no step of the table changes the dataset, nor a sort action
\* the filtered collection.
C22_StableNonMutatingSort ==
    /\ [](TableShown =>
            \A key \in SortKeys, direction \in SortDirections :
                StableSortOf(SortRows(ShownRows, key, direction), ShownRows, key, direction))
    /\ [][/\ normalizedData' = normalizedData
          /\ (sortKey' # sortKey \/ sortDirection' # sortDirection) => ShownRows' = ShownRows]_vars

\* Two rows with equal keys are on screen in descending direction, in the
\* order of the dataset.
C22_EqualKeysDescending ==
    /\ TableShown
    /\ sortDirection = "desc"
    /\ Len(DisplayedRows) = 2
    /\ DisplayedRows[1][sortKey] = DisplayedRows[2][sortKey]
    /\ DisplayedRows = normalizedData

Flipped(direction) == IF direction = "asc" THEN "desc" ELSE "asc"

\* C23: the table starts with (category, ascending); a handleSort call with
\* the current key keeps the key and flips the direction, a call with
\* another key sets that key and the ascending direction; no other step
\* changes the sort state, so the direction is never descending right after
\* a change of the key.
C23_SortDirectionStateMachine ==
    /\ (sortKey = "category" /\ sortDirection = "asc")
    /\ [][/\ \A key \in SortKeys :
                handleSort(key) =>
                    IF key = sortKey
                    THEN sortKey' = sortKey /\ sortDirection' = Flipped(sortDirection)
                    ELSE sortKey' = key /\ sortDirection' = "asc"
          /\ (\A key \in SortKeys : ~handleSort(key)) => UNCHANGED <<sortKey, sortDirection>>
          /\ sortKey' # sortKey => sortDirection' = "asc"]_vars

\* The context column was chosen and then clicked again.
C23_NewKeyThenFlipped ==
    /\ TableShown
    /\ sortKey = "context"
    /\ sortDirection = "desc"

\* C24: a keystroke sets searchInput at once and leaves exactly one timeout
\* pending, the one for the new value; debouncedSearch changes only when a
\* timeout expires, and then to the value searchInput holds and has held
\* since that timeout was set; no other step changes what filteredData is
\* computed from (the rows and debouncedSearch); never is more than one
\* timeout pending, and a pending timeout is always the one of the current
\* searchInput, so a value that was typed over never becomes the filter
\* value.
C24_DebounceSafety ==
    /\ [](Len(timers) <= 1 /\ (timers # <<>> => timers[1] = searchInput))
    /\ [][/\ searchInput' # searchInput => timers' = <<searchInput'>> /\ UNCHANGED debouncedSearch
          /\ debouncedSearch' # debouncedSearch =>
                /\ TimerFires
                /\ debouncedSearch' = searchInput
                /\ UNCHANGED searchInput
          /\ ~TimerFires => UNCHANGED <<normalizedData, debouncedSearch>>]_vars

\* A keystroke after a debounced search: the filter still uses the old
\* text while the timeout of the new one is pending.
C24_TypedOverPendingSearch ==
    /\ TableShown
    /\ debouncedSearch # <<>>
    /\ searchInput # <<>>
    /\ searchInput # debouncedSearch
    /\ timers = <<searchInput>>

\* The submission has ended with one of the five errors of the parser.
FailedWithErrorKind ==
    /\ ParserRan
    /\ ~isLoading
    /\ ~outcome.ok
    /\ outcome.error \in ErrorKinds

\* C25: after a submission whose content fails with one of the five error
\* kinds, the state carries the error message and the result handed to
\* ResultView still holds the content, for the fallback view to show.
C25_RawTextFallbackOnFailure ==
    FailedWithErrorKind =>
        /\ error = Str(outcome.error)
        /\ result = ResultOf(content)

\* C26: when the typing stops, so that searchInput stays at a text q, the
\* timeout fires: from some point on debouncedSearch is q and the filtered
\* rows are those of q; after "Hapus filter", or any other way to an empty
\* search box that stays empty, the filter is empty and every row is shown.
C26_DebounceLiveness ==
    /\ \A q \in SearchTexts :
          <>[](searchInput = q)
              => <>[](debouncedSearch = q /\ ShownRows = FilteredData(normalizedData, q))
    /\ <>[](searchInput = <<>>)
          => <>[](debouncedSearch = <<>> /\ ShownRows = normalizedData)

\* "Hapus filter" has emptied the search box: no row matches the filter
\* text still in use, and the timeout of the empty text is pending.
C26_FilterBeingCleared ==
    /\ TableShown
    /\ searchInput = <<>>
    /\ timers = << <<>> >>
    /\ Trim(debouncedSearch) # <<>>
    /\ Len(normalizedData) > 0
    /\ Len(ShownRows) = 0

\* What new URL makes of the url of the citation at place k.
ParsedCitation(k) == URLParse(ToStringJS(extracted.citations[k].url))

\* The domain that belongs to the url of the citation at place k: its
\* hostname without a leading "www.", the sentinel when it does not parse.
DomainOfCitation(k) ==
    IF ~ParsedCitation(k).ok THEN Str(<<UnknownSource>>)
    ELSE IF ParsedCitation(k).hostname[1] = WWW THEN Str(Tail(ParsedCitation(k).hostname))
    ELSE Str(ParsedCitation(k).hostname)

\* C27: the domain of every citation processResponse returns is the one of
\* the url of the same citation, so that url and domain name the same host,
\* also when a translation-redirect URL wraps another one.
C27_UrlDomainConsistency ==
    extracted.done =>
        \A k \in 1..Len(extracted.citations) :
            extracted.citations[k].domain = DomainOfCitation(k)

\* C28: in every reachable state of App, error and result are not both
\* set, and while isLoading is true both are null and exactly one request
\* is in flight, whatever submissions came before and however they ended.
C28_OutcomeExclusivity ==
    /\ ~(error # Null /\ result # Null)
    /\ isLoading => (error = Null /\ result = Null)
    /\ isLoading <=> request # Null

\* A request is in flight and the topic has been edited in the meantime.
C28_LoadingWithEditedQuery ==
    /\ isLoading
    /\ request # Null
    /\ query # Val(request)
    /\ error = Null
    /\ result = Null

\* The values of the model argument: blank ones and the selected model.
ModelArguments == {<<>>, <<SP>>, SelectedModel}

\* fetchOpenRouterResponse rejects a blank model, and then a blank query,
\* whatever the network would do.
RejectsBlankArguments ==
    \A model \in ModelArguments, q \in Queries, resp \in NetworkOutcomes :
        /\ Trim(model) = <<>> => fetchOpenRouterResponse(model, q, resp) = Threw(<<"Model is required">>)
        /\ (Trim(model) # <<>> /\ Trim(q) = <<>>)
              => fetchOpenRouterResponse(model, q, resp) = Threw(<<"Query is required">>)

\* C29: a chat request is issued only by a submission with a non-blank
\* query and a configured backend, and it carries that query; a submission
\* with a blank query changes nothing; a submission with an unconfigured
\* backend opens the settings dialog and changes nothing else; and
\* fetchOpenRouterResponse rejects a blank model or query whatever the
\* network does.
C29_NoRequestWithoutPreconditions ==
    /\ []RejectsBlankArguments
    /\ [][/\ (request' # request /\ request' # Null) =>
                /\ handleSubmit
                /\ Trim(query) # <<>>
                /\ isBackendConfigured
                /\ request' = Str(query)
          /\ (handleSubmit /\ Trim(query) = <<>>) => UNCHANGED vars
          /\ (handleSubmit /\ Trim(query) # <<>> /\ ~isBackendConfigured) =>
                /\ isSettingsOpen'
                /\ UNCHANGED <<query, isLoading, error, result, logs, isBackendConfigured,
                               isInitialLoading, request, parseVars, viewVars, crashed, libVars>>]_vars

\* The backend is not configured and a topic is typed in: the settings
\* dialog is open and no request has been made.
C29_UnconfiguredWithQuery ==
    /\ ~isInitialLoading
    /\ ~isBackendConfigured
    /\ Trim(query) # <<>>
    /\ isSettingsOpen
    /\ request = Null
    /\ ~isLoading
    /\ logs = <<>>

\* The submission has ended with exactly one of result and error.
SubmissionEnded == ~isLoading /\ ((result = Null) # (error = Null))

\* C30: when the fetch settles, a submission that has set isLoading ends
\* with isLoading false and exactly one of result and error set, in the
\* step in which the request settles and whatever failed; isLoading is
\* never true without a request in flight.
C30_EverySubmissionTerminates ==
    /\ isLoading ~> SubmissionEnded
    /\ [](request = Null => ~isLoading)
    /\ [][(request # Null /\ request' = Null) => SubmissionEnded']_vars

\* The request failed before any content reached the parser, and the
\* submission has ended with the error.
C30_EndedAfterFailedRequest ==
    /\ logs # <<>>
    /\ request = Null
    /\ outcome = NotRun
    /\ ~isLoading
    /\ error # Null
    /\ result = Null

====
